---- MODULE Spec2Model ----
(***************************************************************************)
(* State-machine model of FinancialAnalyzer (src/financial_analyzer.py):   *)
(*   process_financial_data      -- specification Spec                     *)
(*   calculate_financial_ratios  -- specification SpecRatios               *)
(*   calculate_valuation         -- specification SpecValuation            *)
(* and of LLMAnalyzer (src/llm_analyzer.py):                               *)
(*   set_api_key, analyze_company_value, analyze_investment_potential      *)
(*                               -- specification SpecLLM                  *)
(* Python dicts are TLA+ records; "key in d" is "key \in DOMAIN d".        *)
(* Streamlit output (st.write, st.info, st.dataframe) has no effect on the *)
(* returned values and is not modelled, except where building the shown    *)
(* pandas frame can raise.                                                 *)
(***************************************************************************)
EXTENDS Integers, Sequences, FiniteSets, TLC

VARIABLES
    financial_data_list,  \* argument of process_financial_data
    years,                \* argument of process_financial_data
    pc,                   \* position in the function being executed
    i,                    \* loop index of the debug block (1-based)
    idx,                  \* loop index of the per-year loop (1-based)
    item,                 \* index of fin_item in fin_data (1-based)
    year_result,          \* the per-year accumulator
    result,               \* the dataset under construction / returned
    exc,                  \* exception that left the function, or "none"
    financial_data,       \* argument of calculate_financial_ratios / calculate_valuation
    ratios,               \* return value of calculate_financial_ratios
    valuation,            \* return value of calculate_valuation
    call_no,              \* number of the process_financial_data call being executed
    previous,             \* dataset returned by the preceding process_financial_data call
    api_key,              \* LLMAnalyzer.api_key of every analyzer instance
    openai_api_key,       \* the module attribute openai.api_key
    call,                 \* the analyzer method being executed and its arguments
    prompt,               \* the prompt built by the method being executed
    backend_calls,        \* requests sent to the backend by the method being executed
    response,             \* outcome of openai.chat.completions.create
    llm_result,           \* return value of the analyzer method
    session_state,        \* st.session_state of the BridgeApp session
    load_result,          \* return value of the last BridgeApp._load_financial_data
    displayed             \* what the last perform_analysis showed

llmVars == <<api_key, openai_api_key, call, prompt, backend_calls, response, llm_result>>

appVars == <<session_state, load_result, displayed>>

vars == <<financial_data_list, years, pc, i, idx, item, year_result, result, exc,
          financial_data, ratios, valuation, call_no, previous, llmVars, appVars>>

(***************************************************************************)
(* Bounds of the model.                                                    *)
(***************************************************************************)
MaxYears == 2
MaxRecords == 2
MaxCalls == 2

(***************************************************************************)
(* Python helpers.                                                         *)
(***************************************************************************)
\* dict.get(key, default)
Get(d, key, default) == IF key \in DOMAIN d THEN d[key] ELSE default

\* None as a payload; JSON null as the value of a string field.
PyNone == [NoneType |-> TRUE]
NullAmount == "<null>"

Digits == <<"0", "1", "2", "3", "4", "5", "6", "7", "8", "9">>
IsDigit(c) == \E d \in 1..10 : Digits[d] = c
DigitVal(c) == (CHOOSE d \in 1..10 : Digits[d] = c) - 1

\* str.replace(',', '')
RECURSIVE RemoveCommas(_)
RemoveCommas(s) ==
    IF Len(s) = 0 THEN ""
    ELSE LET c == SubSeq(s, 1, 1)
             rest == RemoveCommas(SubSeq(s, 2, Len(s)))
         IN IF c = "," THEN rest ELSE c \o rest

RECURSIVE DigitsValue(_, _)
DigitsValue(s, acc) ==
    IF Len(s) = 0 THEN acc
    ELSE DigitsValue(SubSeq(s, 2, Len(s)), acc * 10 + DigitVal(SubSeq(s, 1, 1)))

AllDigits(s) == Len(s) > 0 /\ \A k \in 1..Len(s) : IsDigit(SubSeq(s, k, k))

\* int(s) for a str s: an optional sign followed by decimal digits; anything
\* else is a ValueError (the amounts of the model hold no blanks or underscores).
PyInt(s) ==
    LET signed == Len(s) > 0 /\ SubSeq(s, 1, 1) \in {"-", "+"}
        body == IF signed THEN SubSeq(s, 2, Len(s)) ELSE s
    IN IF ~AllDigits(body) THEN [ok |-> FALSE, value |-> 0]
       ELSE [ok |-> TRUE,
             value |-> IF signed /\ SubSeq(s, 1, 1) = "-"
                       THEN 0 - DigitsValue(body, 0) ELSE DigitsValue(body, 0)]

(***************************************************************************)
(* LLMAnalyzer: the values its variables hold while no analyzer method is  *)
(* being executed.                                                         *)
(***************************************************************************)
\* Two analyzer objects, as BridgeApp and temp_main construct them.
Analyzers == {"analyzer1", "analyzer2"}

\* openai.api_key before any assignment (None).
NoKey == "<None>"

NoCall == [method |-> "none"]
NoPrompt == [pending |-> TRUE]
NoResponse == [pending |-> TRUE]
NoResult == [pending |-> TRUE]

\* No BridgeApp session exists.
NoSession == [k \in {} |-> 0]
NoLoad == [pending |-> TRUE]
NoDisplay == [pending |-> TRUE]
AppIdle == session_state = NoSession /\ load_result = NoLoad /\ displayed = NoDisplay

LlmIdle ==
    /\ api_key = [a \in Analyzers |-> ""]
    /\ openai_api_key = NoKey
    /\ call = NoCall
    /\ prompt = NoPrompt
    /\ backend_calls = <<>>
    /\ response = NoResponse
    /\ llm_result = NoResult

(***************************************************************************)
(* process_financial_data                                                  *)
(***************************************************************************)
\* The keys of `accounts`, in dict order; each is named by the key of
\* `result` it fills (자산 -> assets, 부채 -> liabilities, 자본 -> equity,
\* 매출액 -> revenue, 영업이익 -> operating_profit, 당기순이익 -> net_income).
Keys == <<"assets", "liabilities", "equity", "revenue", "operating_profit", "net_income">>
KeySet == {Keys[k] : k \in 1..Len(Keys)}
BSKeys == {"assets", "liabilities", "equity"}
ISKeys == {"revenue", "operating_profit", "net_income"}

accounts ==
    [assets |-> {"ifrs-full_Assets", "ifrs_Assets", "Assets",
                 "ifrs-full_TotalAssets", "ifrs_TotalAssets", "TotalAssets"},
     liabilities |-> {"ifrs-full_Liabilities", "ifrs_Liabilities", "Liabilities",
                      "ifrs-full_TotalLiabilities", "ifrs_TotalLiabilities", "TotalLiabilities"},
     equity |-> {"ifrs-full_Equity", "ifrs_Equity", "Equity",
                 "EquityAttributableToOwnersOfParent",
                 "ifrs-full_EquityAttributableToOwnersOfParent",
                 "ifrs-full_TotalEquity", "ifrs_TotalEquity", "TotalEquity"},
     revenue |-> {"ifrs-full_Revenue", "ifrs_Revenue", "Revenue",
                  "ifrs-full_OperatingRevenue", "ifrs_OperatingRevenue", "OperatingRevenue",
                  "ifrs-full_GrossOperatingProfit", "ifrs_GrossOperatingProfit",
                  "GrossOperatingProfit", "ifrs-full_Sales", "ifrs_Sales", "Sales"},
     operating_profit |-> {"ifrs-full_OperatingIncome", "ifrs_OperatingIncome", "OperatingIncome",
                           "ifrs-full_ProfitLossFromOperatingActivities",
                           "ifrs_ProfitLossFromOperatingActivities",
                           "ProfitLossFromOperatingActivities"},
     net_income |-> {"ifrs-full_ProfitLoss", "ifrs_ProfitLoss", "ProfitLoss",
                     "ifrs-full_ProfitLossAttributableToOwnersOfParent",
                     "ifrs_ProfitLossAttributableToOwnersOfParent",
                     "ProfitLossAttributableToOwnersOfParent",
                     "ifrs-full_NetIncome", "ifrs_NetIncome", "NetIncome"}]

\* value // 1000000
Million == 1000000
\* Variant: division that rounds toward zero.
ToMillionsTruncated(value) ==
    IF value < 0 THEN 0 - ((0 - value) \div Million) ELSE value \div Million

\* value // 1000000
ToMillions(value) == value \div Million

\* The division test of the two branches (lines 114 and 133).
\* Variant: the statement division is not looked at.
DivisionAcceptedAny(key, sj_div) == TRUE

DivisionAccepted(key, sj_div) ==
    \/ key \in BSKeys /\ sj_div = "BS"
    \/ key \in ISKeys /\ (sj_div = "CIS" \/ sj_div = "IS")

\* Variant: the guard is dropped, so the last matching record wins.
MayAssignAlways(yr, key) == TRUE

\* Variant: a key holding a negative value is written again.
MayAssignNotPositive(yr, key) == yr[key] <= 0

\* The guard of the assignment: only a key still at 0 is written.
MayAssign(yr, key) == yr[key] = 0

\* The body of `for key, id_list in accounts.items()` for one key
\* (lines 110-149): the new year_result, or the exception that escapes.
ApplyKey(yr, fin_item, key) ==
    LET account_id == Get(fin_item, "account_id", "")
        sj_div == Get(fin_item, "sj_div", "")
        amount == Get(fin_item, "thstrm_amount", "0")
        parsed == PyInt(RemoveCommas(amount))
    IN IF ~(account_id \in accounts[key]) \/ ~DivisionAccepted(key, sj_div)
       THEN [yr |-> yr, exc |-> "none"]
       ELSE IF amount = NullAmount
       THEN [yr |-> yr, exc |-> "AttributeError"]     \* None.replace: not caught
       ELSE IF ~parsed.ok
       THEN [yr |-> yr, exc |-> "none"]               \* ValueError: caught
       ELSE IF MayAssign(yr, key)
       THEN [yr |-> [yr EXCEPT ![key] = ToMillions(parsed.value)], exc |-> "none"]
       ELSE [yr |-> yr, exc |-> "none"]

\* Lines 107-149 for one fin_item: the keys are tried in dict order, and an
\* escaping exception ends the iteration.
RECURSIVE ApplyKeys(_, _, _)
ApplyKeys(yr, fin_item, k) ==
    IF k > Len(Keys) THEN [yr |-> yr, exc |-> "none"]
    ELSE LET r == ApplyKey(yr, fin_item, Keys[k])
         IN IF r.exc # "none" THEN r ELSE ApplyKeys(r.yr, fin_item, k + 1)

ProcessItem(yr, fin_item) ==
    IF Get(fin_item, "account_id", "") = "" THEN [yr |-> yr, exc |-> "none"]
    ELSE ApplyKeys(yr, fin_item, 1)

\* Variant: the accumulator is created once, outside the per-year loop.
NewYearResultCarried(prev) == prev

\* Lines 76-83: the accumulator a year starts with (prev is the one of the
\* year before).
NewYearResult(prev) == [k \in KeySet |-> 0]

\* A result dict kept from one call to the next.
EmptyResultKept(ys) ==
    IF call_no = 1
    THEN [assets |-> <<>>, liabilities |-> <<>>, equity |-> <<>>,
          revenue |-> <<>>, operating_profit |-> <<>>, net_income |-> <<>>,
          years |-> ys]
    ELSE [previous EXCEPT !.years = ys]

\* Lines 62-70.
EmptyResult(ys) == [assets |-> <<>>, liabilities |-> <<>>, equity |-> <<>>,
                    revenue |-> <<>>, operating_profit |-> <<>>, net_income |-> <<>>,
                    years |-> ys]

\* `for key, value in year_result.items(): result[key].append(value)`
AppendYear(res, yr) ==
    [k \in DOMAIN res |-> IF k \in KeySet THEN Append(res[k], yr[k]) ELSE res[k]]

\* Line 85.
IsMissing(year_data) == year_data = PyNone \/ ~("list" \in DOMAIN year_data)

\* Line 37: pd.DataFrame(data['list'][:5])[[...]] raises KeyError when none
\* of the sampled records carries one of the selected columns.
SampleSize == 5
SampleColumns == {"account_nm", "account_id", "thstrm_amount"}
SampleRaises(data) ==
    LET sample == SubSeq(data.list, 1, IF Len(data.list) < SampleSize
                                       THEN Len(data.list) ELSE SampleSize)
    IN \E col \in SampleColumns : \A k \in 1..Len(sample) : ~(col \in DOMAIN sample[k])

(***************************************************************************)
(* Inputs of process_financial_data.  A fin_item is a dict with optional   *)
(* fields; Absent as a field's value means the field is left out.          *)
(***************************************************************************)
Absent == "<absent>"
ItemFields == {"account_id", "account_nm", "sj_div", "thstrm_amount"}
MkItem(id, nm, div, amt) ==
    LET vals == [account_id |-> id, account_nm |-> nm, sj_div |-> div, thstrm_amount |-> amt]
    IN [f \in {g \in ItemFields : vals[g] # Absent} |-> vals[f]]

AllAliases == UNION {accounts[k] : k \in KeySet}
\* thstrm_amount as the disclosure API delivers it: amounts with thousands
\* separators, a bare dash for "no amount", JSON null.
Amounts == {"3,000,000", "999,999", "-1", "-", NullAmount}

ListPayload(recs) == [status |-> "000", list |-> recs]
NoListPayload == [status |-> "013", message |-> "no data"]

RECURSIVE SeqsUpTo(_, _)
SeqsUpTo(S, n) ==
    IF n = 0 THEN {<<>>}
    ELSE LET shorter == SeqsUpTo(S, n - 1)
         IN shorter \cup {Append(q, x) : q \in {p \in shorter : Len(p) = n - 1}, x \in S}

YearsOf(n) == [k \in 1..n |-> 2020 + k]

\* One year, one record: every alias, division and amount.
KeyItems ==
    {MkItem(id, nm, div, amt) :
        id \in AllAliases \cup {"ifrs-full_CashAndCashEquivalents", Absent},
        nm \in {"name", Absent},
        div \in {"BS", "IS", "CIS", "CF", Absent},
        amt \in Amounts \cup {Absent}}
KeyInputs == {<<(<<ListPayload(<<r>>)>>), YearsOf(1)>> : r \in KeyItems}

\* One year, up to MaxRecords records (duplicate and alternate tags).
DeepItems ==
    {MkItem(id, "name", div, amt) :
        id \in {"ifrs-full_Assets", "TotalAssets", "ifrs-full_Revenue"},
        div \in {"BS", "CIS"},
        amt \in Amounts \cup {Absent}}
RecordInputs == {<<(<<ListPayload(recs)>>), YearsOf(1)>> : recs \in SeqsUpTo(DeepItems, MaxRecords)}

\* Up to MaxYears payloads of every kind against up to MaxYears years.
YearPayloads ==
    {PyNone, NoListPayload, ListPayload(<<>>)}
    \cup {ListPayload(<<r>>) :
            r \in {MkItem("ifrs-full_Assets", "name", "BS", "3,000,000"),
                   MkItem("ifrs-full_Assets", "name", "BS", "-1"),
                   MkItem("ifrs-full_Revenue", "name", "CIS", "3,000,000"),
                   MkItem("ifrs-full_Equity", "name", "BS", Absent),
                   MkItem("ifrs-full_ProfitLoss", "name", "IS", NullAmount)}}
YearInputs == {<<fdl, YearsOf(n)>> : fdl \in SeqsUpTo(YearPayloads, MaxYears), n \in 0..MaxYears}

\* One year, one accepted record: amounts on both sides of a multiple of a
\* million.
BoundaryAmounts == {"-1,000,001", "-1,000,000", "-999,999", "0", "1,000,000", "1,999,999"}
BoundaryInputs ==
    {<<(<<ListPayload(<<MkItem("ifrs-full_Assets", "name", "BS", amt)>>)>>), YearsOf(1)>> :
        amt \in BoundaryAmounts}

Inputs == KeyInputs \cup RecordInputs \cup YearInputs \cup BoundaryInputs

Zeros == [k \in KeySet |-> 0]
NoDataset == EmptyResult(<<>>)
NoRatios == [pending |-> TRUE]
NoValuation == [pending |-> TRUE]

Init ==
    /\ \E inp \in Inputs : financial_data_list = inp[1] /\ years = inp[2]
    /\ pc = "debug"
    /\ call_no = 1 /\ previous = NoDataset
    /\ i = 1 /\ idx = 1 /\ item = 1
    /\ year_result = Zeros
    /\ result = EmptyResult(years)
    /\ exc = "none"
    /\ financial_data = NoDataset
    /\ ratios = NoRatios
    /\ valuation = NoValuation
    /\ LlmIdle
    /\ AppIdle

Raise(e) == pc' = "raised" /\ exc' = e

\* Lines 24-38, one iteration of the debug block: every branch formats
\* years[i]; the last branch builds the sample frame.
DebugSamples(data) ==
    /\ data # PyNone
    /\ ~("status" \in DOMAIN data /\ data.status # "000")
    /\ "list" \in DOMAIN data
    /\ Len(data.list) > 0

DebugStep ==
    /\ pc = "debug" /\ i <= Len(financial_data_list)
    /\ IF i > Len(years)
       THEN Raise("IndexError") /\ i' = i
       ELSE IF DebugSamples(financial_data_list[i]) /\ SampleRaises(financial_data_list[i])
       THEN Raise("KeyError") /\ i' = i
       ELSE i' = i + 1 /\ UNCHANGED <<pc, exc>>
    /\ UNCHANGED <<financial_data_list, years, idx, item, year_result, result,
                   financial_data, ratios, valuation, call_no, previous, llmVars, appVars>>

\* Lines 41-70: the debug block is left and the result is initialised.
DebugDone ==
    /\ pc = "debug" /\ i > Len(financial_data_list)
    /\ pc' = "loop" /\ idx' = 1
    /\ result' = EmptyResult(years)
    /\ UNCHANGED <<financial_data_list, years, i, item, year_result, exc,
                   financial_data, ratios, valuation, call_no, previous, llmVars, appVars>>

\* Lines 73-89: a year without records gets 0 for every key.
YearMissing ==
    /\ pc = "loop" /\ idx <= Len(financial_data_list)
    /\ IsMissing(financial_data_list[idx])
    /\ year_result' = NewYearResult(year_result)
    /\ result' = AppendYear(result, Zeros)
    /\ idx' = idx + 1
    /\ UNCHANGED <<financial_data_list, years, pc, i, item, exc,
                   financial_data, ratios, valuation, call_no, previous, llmVars, appVars>>

\* Lines 73-103: a year with records starts from a fresh accumulator.
YearBegin ==
    /\ pc = "loop" /\ idx <= Len(financial_data_list)
    /\ ~IsMissing(financial_data_list[idx])
    /\ year_result' = NewYearResult(year_result)
    /\ item' = 1
    /\ pc' = "items"
    /\ UNCHANGED <<financial_data_list, years, i, idx, result, exc,
                   financial_data, ratios, valuation, call_no, previous, llmVars, appVars>>

\* Lines 106-149, one fin_item.
ItemStep ==
    /\ pc = "items" /\ item <= Len(financial_data_list[idx].list)
    /\ LET r == ProcessItem(year_result, financial_data_list[idx].list[item])
       IN IF r.exc # "none"
          THEN Raise(r.exc) /\ UNCHANGED <<year_result, item>>
          ELSE year_result' = r.yr /\ item' = item + 1 /\ UNCHANGED <<pc, exc>>
    /\ UNCHANGED <<financial_data_list, years, i, idx, result,
                   financial_data, ratios, valuation, call_no, previous, llmVars, appVars>>

\* Lines 151-168: the year's values are appended.
YearEnd ==
    /\ pc = "items" /\ item > Len(financial_data_list[idx].list)
    /\ result' = AppendYear(result, year_result)
    /\ idx' = idx + 1
    /\ pc' = "loop"
    /\ UNCHANGED <<financial_data_list, years, i, item, year_result, exc,
                   financial_data, ratios, valuation, call_no, previous, llmVars, appVars>>

\* Lines 171-208: the summary frame is built from years and the six lists
\* (pandas raises ValueError when their lengths differ), then result is returned.
SummaryRaises(res, ys) == \E k \in KeySet : Len(res[k]) # Len(ys)

Summary ==
    /\ pc = "loop" /\ idx > Len(financial_data_list)
    /\ IF SummaryRaises(result, years) THEN Raise("ValueError")
       ELSE pc' = "done" /\ exc' = exc
    /\ UNCHANGED <<financial_data_list, years, i, idx, item, year_result, result,
                   financial_data, ratios, valuation, call_no, previous, llmVars, appVars>>

\* The caller has the dataset and calls process_financial_data again with
\* the same payloads and years: the function starts over at line 19.
CallAgain ==
    /\ pc = "done" /\ call_no < MaxCalls
    /\ previous' = result
    /\ call_no' = call_no + 1
    /\ pc' = "debug"
    /\ i' = 1 /\ idx' = 1 /\ item' = 1
    /\ UNCHANGED <<financial_data_list, years, year_result, result, exc,
                   financial_data, ratios, valuation, llmVars, appVars>>

Next ==
    \/ DebugStep
    \/ DebugDone
    \/ YearMissing
    \/ YearBegin
    \/ ItemStep
    \/ YearEnd
    \/ Summary
    \/ CallAgain

Spec == Init /\ [][Next]_vars

(***************************************************************************)
(* Number formatting.  Python computes the ratios and the EBITDA value in  *)
(* binary floating point; the model computes them as exact rationals and   *)
(* rounds to nearest, ties to even, as the format specification does.  The *)
(* two agree on every value of the model's datasets (none is a tie).       *)
(***************************************************************************)
Abs(n) == IF n < 0 THEN 0 - n ELSE n

\* round(n / d) to an integer, ties to even; d > 0
RoundHalfEven(n, d) ==
    LET q == n \div d
        r == n % d
    IN IF 2 * r < d THEN q
       ELSE IF 2 * r > d THEN q + 1
       ELSE IF q % 2 = 0 THEN q ELSE q + 1

\* str(n) for n >= 0
RECURSIVE IntStr(_)
IntStr(n) == IF n < 10 THEN Digits[n + 1] ELSE IntStr(n \div 10) \o Digits[(n % 10) + 1]

\* f"{n:,}" for n >= 0
RECURSIVE IntStrCommas(_)
IntStrCommas(n) ==
    IF n < 1000 THEN IntStr(n)
    ELSE LET low == n % 1000
         IN IntStrCommas(n \div 1000) \o "," \o Digits[(low \div 100) + 1]
            \o Digits[((low \div 10) % 10) + 1] \o Digits[(low % 10) + 1]

\* f"{x:.2f}%" for x = n / d, d # 0
FormatPercent(n, d) ==
    LET num == IF d < 0 THEN 0 - n ELSE n
        den == Abs(d)
        h == Abs(RoundHalfEven(num * 100, den))
    IN (IF num < 0 THEN "-" ELSE "") \o IntStr(h \div 100) \o "."
       \o Digits[((h \div 10) % 10) + 1] \o Digits[(h % 10) + 1] \o "%"

\* f"{x:,.0f}" for x = t / 10
FormatAmount(t) ==
    (IF t < 0 THEN "-" ELSE "") \o IntStrCommas(Abs(RoundHalfEven(t, 10)))

(***************************************************************************)
(* calculate_financial_ratios                                              *)
(***************************************************************************)
Sentinel == "-"
ZeroDivisionError == "ZeroDivisionError"

\* Variant: only a zero denominator is guarded.
HasDenominatorNonZero(d) == d # 0

\* The guard of every ratio: the denominator is positive.
HasDenominator(d) == d > 0

\* (a / b) * 100 formatted, or the error Python's division raises
Ratio(a, b) == IF b = 0 THEN ZeroDivisionError ELSE FormatPercent(a * 100, b)

\* Variant: growth is measured against the first year.
GrowthBaseFirst(j) == 1

\* Line 226: the year the growth of year j (1-based, j >= 2) is measured against.
GrowthBase(j) == j - 1

\* Variant: the first year is reported as zero growth.
GrowthSeedZero == <<"0.00%">>

\* Line 223: the entry of the first year.
GrowthSeed == <<Sentinel>>

\* Lines 225-229 for year j (1-based, j >= 2).
GrowthEntry(fd, j) ==
    LET prev == fd.revenue[GrowthBase(j)]
    IN IF HasDenominator(prev)
       THEN (IF prev = 0 THEN ZeroDivisionError
             ELSE FormatPercent((fd.revenue[j] - prev) * 100, prev))
       ELSE Sentinel

\* Lines 223-229.
RevenueGrowth(fd) ==
    IF Len(fd.revenue) < 2 THEN GrowthSeed      \* range(1, len) is empty
    ELSE GrowthSeed \o [j \in 1..(Len(fd.revenue) - 1) |-> GrowthEntry(fd, j + 1)]

\* Lines 232-265: one entry per element of the denominator's list.
RatioList(num, den) ==
    [j \in 1..Len(den) |-> IF HasDenominator(den[j]) THEN Ratio(num[j], den[j]) ELSE Sentinel]

RatioNames == {"revenue_growth", "profit_margin", "net_margin", "roe", "debt_ratio"}

\* The returned dict; its keys are named by the local variables that fill
\* them (연도, 매출 성장률, 영업이익률, 순이익률, ROE, 부채비율).
calculate_financial_ratios(fd) ==
    [years |-> [j \in 1..Len(fd.years) |-> IntStr(fd.years[j])],
     revenue_growth |-> RevenueGrowth(fd),
     profit_margin |-> RatioList(fd.operating_profit, fd.revenue),
     net_margin |-> RatioList(fd.net_income, fd.revenue),
     roe |-> RatioList(fd.net_income, fd.equity),
     debt_ratio |-> RatioList(fd.liabilities, fd.assets)]

RatiosRaise(r) ==
    \E name \in RatioNames : \E j \in 1..Len(r[name]) : r[name][j] = ZeroDivisionError

\* Datasets: one row of values per year.
MaxGrowthYears == 3
DatasetOf(rows) ==
    [assets |-> [j \in 1..Len(rows) |-> rows[j].assets],
     liabilities |-> [j \in 1..Len(rows) |-> rows[j].liabilities],
     equity |-> [j \in 1..Len(rows) |-> rows[j].equity],
     revenue |-> [j \in 1..Len(rows) |-> rows[j].revenue],
     operating_profit |-> [j \in 1..Len(rows) |-> rows[j].operating_profit],
     net_income |-> [j \in 1..Len(rows) |-> rows[j].net_income],
     years |-> YearsOf(Len(rows))]

Row(a, l, e, r, op, ni) ==
    [assets |-> a, liabilities |-> l, equity |-> e, revenue |-> r,
     operating_profit |-> op, net_income |-> ni]

\* Revenue histories of up to MaxGrowthYears years, the other items fixed.
GrowthRows == {Row(1000, 400, 500, r, 50, 100) : r \in {0 - 1000, 0, 1000, 1100, 1210}}
\* Every sign of every numerator and denominator, up to MaxYears years.
RatioRows ==
    {Row(b[1], b[2], b[3], r, p[1], p[2]) :
        b \in {<<1000, 400, 500>>, <<0, 0, 0>>, <<300, 400, 0 - 100>>},
        r \in {0 - 1000, 0, 1000},
        p \in {<<50, 100>>, <<0, 0>>, <<0 - 50, 0 - 100>>}}
RatioDatasets ==
    {DatasetOf(rows) : rows \in SeqsUpTo(GrowthRows, MaxGrowthYears) \cup SeqsUpTo(RatioRows, MaxYears)}

InitRatios ==
    /\ financial_data \in RatioDatasets
    /\ pc = "ratios"
    /\ ratios = NoRatios
    /\ exc = "none"
    /\ financial_data_list = <<>> /\ years = <<>>
    /\ i = 1 /\ idx = 1 /\ item = 1
    /\ year_result = Zeros
    /\ result = NoDataset
    /\ valuation = NoValuation
    /\ call_no = 1 /\ previous = NoDataset
    /\ LlmIdle
    /\ AppIdle

\* Lines 220-274.
CalculateFinancialRatios ==
    /\ pc = "ratios"
    /\ LET r == calculate_financial_ratios(financial_data)
       IN IF RatiosRaise(r)
          THEN Raise(ZeroDivisionError) /\ ratios' = ratios
          ELSE pc' = "ratios_done" /\ ratios' = r /\ exc' = exc
    /\ UNCHANGED <<financial_data_list, years, i, idx, item, year_result, result,
                   financial_data, valuation, call_no, previous, llmVars, appVars>>

NextRatios == CalculateFinancialRatios

SpecRatios == InitRatios /\ [][NextRatios]_vars

(***************************************************************************)
(* calculate_valuation.  Amounts are carried in tenths of a million won so *)
(* that the product with 1.2 is exact.                                     *)
(***************************************************************************)
Whole(n) == n * 10

avg_industry_per == 15
avg_industry_ebitda_multiple == 8
\* 1.2, in tenths
EbitdaFactorTenths == 12

\* any(xs)
PyAny(xs) == \E j \in 1..Len(xs) : xs[j] # 0

\* Variant: a year with zero profit counts as valid.
IsValidYearNonNegative(fd, j) == fd.net_income[j] >= 0 \/ fd.operating_profit[j] >= 0

\* Line 297.
IsValidYear(fd, j) == fd.net_income[j] > 0 \/ fd.operating_profit[j] > 0

\* Variant: the scan goes from the first year up.
FindValidYearFromFirst(fd, j) ==
    LET valid == {n \in 1..j : IsValidYear(fd, n)}
    IN IF valid = {} THEN 0 ELSE CHOOSE n \in valid : \A m \in valid : n <= m

\* Lines 296-312: the scan from the last year down; 0 when the loop ends
\* without break.
RECURSIVE FindValidYear(_, _)
FindValidYear(fd, j) ==
    IF j < 1 THEN 0
    ELSE IF IsValidYear(fd, j) THEN j
    ELSE FindValidYear(fd, j - 1)

\* Lines 288-293 and 307-312 (데이터 부족: insufficient data).
InsufficientData ==
    [valuations |-> <<[method |-> "insufficient data", value |-> "N/A"]>>,
     range |-> <<0, 0>>]

\* Line 316, in tenths.
EstimatedValuePer(current_net_income) ==
    IF current_net_income > 0 THEN Whole(current_net_income * avg_industry_per) ELSE 0

\* Variant: the multiple is applied to the operating profit itself.
EstimatedValueEbitdaNoFactor(current_op_profit) ==
    IF current_op_profit > 0 THEN Whole(current_op_profit * avg_industry_ebitda_multiple) ELSE 0

\* Lines 320-321, in tenths.
EstimatedValueEbitda(current_op_profit) ==
    LET estimated_ebitda == current_op_profit * EbitdaFactorTenths
    IN IF estimated_ebitda > 0 THEN estimated_ebitda * avg_industry_ebitda_multiple ELSE 0

\* Line 324, in tenths.
EstimatedValueNav(current_equity) == Whole(current_equity)

\* Variant: every method value enters the range.
InRangeAll(v) == TRUE

\* Line 333: the values that enter the range.
InRange(v) == v > 0

MinOf(S) == CHOOSE m \in S : \A v \in S : m <= v
MaxOf(S) == CHOOSE m \in S : \A v \in S : m >= v

\* Variant: the range starts at 0.
ValuationRangeFromZero(vs) ==
    LET values == {vs[k] : k \in {j \in 1..Len(vs) : InRange(vs[j])}}
    IN IF values # {} THEN <<0, MaxOf(values)>> ELSE <<0, 0>>

\* Lines 333-339.
ValuationRange(vs) ==
    LET values == {vs[k] : k \in {j \in 1..Len(vs) : InRange(vs[j])}}
    IN IF values # {} THEN <<MinOf(values), MaxOf(values)>> ELSE <<0, 0>>

\* Lines 287-344.  Methods: PER 기준 가치, EBITDA Multiple 기준 가치, 순자산 가치.
calculate_valuation(fd) ==
    IF ~PyAny(fd.net_income) /\ ~PyAny(fd.operating_profit) THEN InsufficientData
    ELSE LET j == FindValidYear(fd, Len(fd.years))
         IN IF j = 0 THEN InsufficientData
            ELSE LET per == EstimatedValuePer(fd.net_income[j])
                     ebitda == EstimatedValueEbitda(fd.operating_profit[j])
                     nav == EstimatedValueNav(fd.equity[j])
                 IN [valuations |->
                        <<[method |-> "PER", value |-> FormatAmount(per)],
                          [method |-> "EBITDA Multiple", value |-> FormatAmount(ebitda)],
                          [method |-> "NAV", value |-> FormatAmount(nav)]>>,
                     range |-> ValuationRange(<<per, ebitda, nav>>)]

\* Datasets: every sign of net income, operating profit and equity in
\* every year; the items the valuation does not read are 0.
ValuationRows ==
    {Row(0, 0, e, 0, op, ni) :
        e \in {0 - 500, 0, 10, 500, 2000},
        op \in {0 - 50, 0, 1, 50},
        ni \in {0 - 100, 0, 100}}
ValuationDatasets == {DatasetOf(rows) : rows \in SeqsUpTo(ValuationRows, MaxYears)}

InitValuation ==
    /\ financial_data \in ValuationDatasets
    /\ pc = "valuation"
    /\ valuation = NoValuation
    /\ exc = "none"
    /\ financial_data_list = <<>> /\ years = <<>>
    /\ i = 1 /\ idx = 1 /\ item = 1
    /\ year_result = Zeros
    /\ result = NoDataset
    /\ ratios = NoRatios
    /\ call_no = 1 /\ previous = NoDataset
    /\ LlmIdle
    /\ AppIdle

\* Lines 287-344.
CalculateValuation ==
    /\ pc = "valuation"
    /\ valuation' = calculate_valuation(financial_data)
    /\ pc' = "valuation_done"
    /\ UNCHANGED <<financial_data_list, years, i, idx, item, year_result, result, exc,
                   financial_data, ratios, call_no, previous, llmVars, appVars>>

NextValuation == CalculateValuation

SpecValuation == InitValuation /\ [][NextValuation]_vars

(***************************************************************************)
(* LLMAnalyzer (src/llm_analyzer.py).                                      *)
(*                                                                         *)
(* Text is a TLA+ string.  Decoded JSON values are tagged records:         *)
(* [t |-> "dict", v |-> function from key to value], [t |-> "list", v |->  *)
(* sequence], [t |-> "int", v |-> n], [t |-> "str", v |-> s],              *)
(* [t |-> "bool", v |-> b] and PyNone.  The texts of the model hold no     *)
(* backslash, no fraction or exponent and no NaN / Infinity, so string     *)
(* escapes and floats are left out of the decoder.                         *)
(***************************************************************************)
\* s[p] (1-based), "" outside the string
Char(s, p) == IF p >= 1 /\ p <= Len(s) THEN SubSeq(s, p, p) ELSE ""

StartsWith(s, p, lit) == p + Len(lit) - 1 <= Len(s) /\ SubSeq(s, p, p + Len(lit) - 1) = lit

\* The whitespace str.strip() removes (of the characters a TLA+ string can hold).
PyWhitespace == {" ", "\t", "\n", "\r", "\f"}

RECURSIVE LStrip(_)
LStrip(s) == IF Char(s, 1) \in PyWhitespace THEN LStrip(SubSeq(s, 2, Len(s))) ELSE s

RECURSIVE RStrip(_)
RStrip(s) == IF Char(s, Len(s)) \in PyWhitespace THEN RStrip(SubSeq(s, 1, Len(s) - 1)) ELSE s

\* str.strip()
Strip(s) == RStrip(LStrip(s))

\* No extraction: the pattern is never found.
re_search_nothing(content) == [matched |-> FALSE]

\* re.search(r'({[\s\S]*})', content): the leftmost '{' and, the star being
\* greedy, the last '}' of the text after it.
re_search(content) ==
    LET opens == {p \in 1..Len(content) : Char(content, p) = "{"}
        closes == {p \in 1..Len(content) : Char(content, p) = "}"}
        first == CHOOSE p \in opens : \A q \in opens : p <= q
        last == CHOOSE p \in closes : \A q \in closes : q <= p
    IN IF opens # {} /\ closes # {} /\ first < last
       THEN [matched |-> TRUE, group1 |-> SubSeq(content, first, last)]
       ELSE [matched |-> FALSE]

\* json.decoder: WHITESPACE
JsonWhitespace == {" ", "\t", "\n", "\r"}

RECURSIVE SkipWs(_, _)
SkipWs(s, p) == IF Char(s, p) \in JsonWhitespace THEN SkipWs(s, p + 1) ELSE p

PyStr(s) == [t |-> "str", v |-> s]
PyIntValue(n) == [t |-> "int", v |-> n]
PyBool(b) == [t |-> "bool", v |-> b]
PyList(xs) == [t |-> "list", v |-> xs]
PyDict(d) == [t |-> "dict", v |-> d]
EmptyDict == [k \in {} |-> PyNone]

\* d[key] = value on a dict: a repeated key keeps the last value
SetItem(d, key, value) ==
    [k \in DOMAIN d \cup {key} |-> IF k = key THEN value ELSE d[k]]

\* A decoding step either gives a value and the position after it, or is a
\* JSONDecodeError with its message (msg, without the line and column).
Decoded(value, p) == [ok |-> TRUE, val |-> value, end |-> p]
JSONDecodeError(m) == [ok |-> FALSE, msg |-> m]

\* json.decoder.scanstring from the position after the opening quote
RECURSIVE ScanString(_, _, _)
ScanString(s, p, acc) ==
    LET c == Char(s, p)
    IN IF c = "" THEN JSONDecodeError("Unterminated string starting at")
       ELSE IF c = "\"" THEN Decoded(acc, p + 1)
       ELSE IF c \in {"\t", "\n", "\r", "\f"} THEN JSONDecodeError("Invalid control character at")
       ELSE ScanString(s, p + 1, acc \o c)

RECURSIVE DigitsEnd(_, _)
DigitsEnd(s, p) == IF IsDigit(Char(s, p)) THEN DigitsEnd(s, p + 1) ELSE p

\* json.scanner NUMBER_RE, integer part: -?(0|[1-9]\d*)
ScanNumber(s, p) ==
    LET neg == Char(s, p) = "-"
        q == IF neg THEN p + 1 ELSE p
        e == IF Char(s, q) = "0" THEN q + 1 ELSE DigitsEnd(s, q)
        n == DigitsValue(SubSeq(s, q, e - 1), 0)
    IN IF ~IsDigit(Char(s, q)) THEN JSONDecodeError("Expecting value")
       ELSE Decoded(PyIntValue(IF neg THEN 0 - n ELSE n), e)

\* json.scanner.py_make_scanner._scan_once, json.decoder.JSONObject and
\* json.decoder.JSONArray
RECURSIVE ScanOnce(_, _), ScanMembers(_, _, _), ScanElements(_, _, _)
ScanOnce(s, p) ==
    LET c == Char(s, p)
    IN IF c = "\""
       THEN LET r == ScanString(s, p + 1, "")
            IN IF r.ok THEN Decoded(PyStr(r.val), r.end) ELSE r
       ELSE IF c = "{"
       THEN LET q == SkipWs(s, p + 1)
            IN IF Char(s, q) = "}" THEN Decoded(PyDict(EmptyDict), q + 1)
               ELSE ScanMembers(s, q, EmptyDict)
       ELSE IF c = "["
       THEN LET q == SkipWs(s, p + 1)
            IN IF Char(s, q) = "]" THEN Decoded(PyList(<<>>), q + 1)
               ELSE ScanElements(s, q, <<>>)
       ELSE IF StartsWith(s, p, "null") THEN Decoded(PyNone, p + 4)
       ELSE IF StartsWith(s, p, "true") THEN Decoded(PyBool(TRUE), p + 4)
       ELSE IF StartsWith(s, p, "false") THEN Decoded(PyBool(FALSE), p + 5)
       ELSE ScanNumber(s, p)

\* The members of an object, from the position where a key is expected.
ScanMembers(s, p, pairs) ==
    IF Char(s, p) # "\""
    THEN JSONDecodeError("Expecting property name enclosed in double quotes")
    ELSE LET key == ScanString(s, p + 1, "")
         IN IF ~key.ok THEN key
            ELSE LET colon == SkipWs(s, key.end)
                 IN IF Char(s, colon) # ":" THEN JSONDecodeError("Expecting ':' delimiter")
                    ELSE LET value == ScanOnce(s, SkipWs(s, colon + 1))
                         IN IF ~value.ok THEN value
                            ELSE LET d == SetItem(pairs, key.val, value.val)
                                     e == SkipWs(s, value.end)
                                 IN IF Char(s, e) = "}" THEN Decoded(PyDict(d), e + 1)
                                    ELSE IF Char(s, e) # ","
                                    THEN JSONDecodeError("Expecting ',' delimiter")
                                    ELSE ScanMembers(s, SkipWs(s, e + 1), d)

\* The elements of an array, from the position where a value is expected.
ScanElements(s, p, values) ==
    LET value == ScanOnce(s, p)
    IN IF ~value.ok THEN value
       ELSE LET xs == Append(values, value.val)
                e == SkipWs(s, value.end)
            IN IF Char(s, e) = "]" THEN Decoded(PyList(xs), e + 1)
               ELSE IF Char(s, e) # "," THEN JSONDecodeError("Expecting ',' delimiter")
               ELSE ScanElements(s, SkipWs(s, e + 1), xs)

\* json.loads(s): one value with nothing but whitespace around it
json_loads(s) ==
    LET r == ScanOnce(s, SkipWs(s, 1))
    IN IF ~r.ok THEN r
       ELSE IF SkipWs(s, r.end) # Len(s) + 1 THEN JSONDecodeError("Extra data")
       ELSE r

\* The text the f-strings fall back to ('알 수 없음').
Unknown == "unknown"

\* if industry_info: / if not self.api_key: -- None, {} and '' are false
Truthy(x) == x # PyNone /\ DOMAIN x # {}

DatasetKeys ==
    <<"years", "assets", "liabilities", "equity", "revenue", "operating_profit", "net_income">>

\* Lines 77-83 and 253-259: the first key financial_data[...] does not find,
\* "" when all are present.
MissingKey(fd) ==
    LET missing == {k \in 1..Len(DatasetKeys) : DatasetKeys[k] \notin DOMAIN fd}
    IN IF missing = {} THEN ""
       ELSE DatasetKeys[CHOOSE k \in missing : \A m \in missing : k <= m]

\* Lines 87-96 and 263-272: assets[i] ... net_income[i] for i in range(len(years))
FinancesRaise(fd) ==
    \E k \in 2..Len(DatasetKeys) : Len(fd[DatasetKeys[k]]) < Len(fd.years)

Finances(fd) ==
    [j \in 1..Len(fd.years) |->
        [year |-> fd.years[j], assets |-> fd.assets[j], liabilities |-> fd.liabilities[j],
         equity |-> fd.equity[j], revenue |-> fd.revenue[j],
         operating_profit |-> fd.operating_profit[j], net_income |-> fd.net_income[j]]]

\* round((a / b) * 100, 2) if b > 0 else None; the number in hundredths
RatioOrNone(a, b) == IF b > 0 THEN [hundredths |-> RoundHalfEven(a * 10000, b)] ELSE PyNone

\* Lines 99-134.
PromptRatios(fd) ==
    [j \in 1..Len(fd.years) |->
        [year |-> fd.years[j],
         debt_ratio |-> RatioOrNone(fd.liabilities[j], fd.equity[j]),
         operating_margin |-> RatioOrNone(fd.operating_profit[j], fd.revenue[j]),
         net_margin |-> RatioOrNone(fd.net_income[j], fd.revenue[j]),
         roe |-> RatioOrNone(fd.net_income[j], fd.equity[j]),
         roa |-> RatioOrNone(fd.net_income[j], fd.assets[j])]]

\* Lines 137-144: the three values the sector text embeds, <<>> for ""
SectorInfo(industry_info) ==
    IF Truthy(industry_info)
    THEN <<Get(industry_info, "sector", Unknown), Get(industry_info, "avg_per", Unknown),
           Get(industry_info, "avg_pbr", Unknown)>>
    ELSE <<>>

\* Lines 72-134 and 250-272: str(e) of the exception raised before the
\* prompt is complete, "" if none is raised.
PromptError(fd) ==
    IF MissingKey(fd) # "" THEN "'" \o MissingKey(fd) \o "'"
    ELSE IF FinancesRaise(fd) THEN "list index out of range"
    ELSE ""

\* Lines 72-182: the prompt, as the values its text embeds.
CompanyValuePrompt(company_info, fd, industry_info) ==
    [company_name |-> Get(company_info, "corp_name", Unknown),
     company_type |-> Get(company_info, "induty_code", ""),
     company_business |-> Get(company_info, "induty", Unknown),
     finances |-> Finances(fd),
     ratios |-> PromptRatios(fd),
     sector_info |-> SectorInfo(industry_info)]

\* Lines 250-285.
InvestmentPrompt(company_info, fd, specific_question) ==
    [company_name |-> Get(company_info, "corp_name", Unknown),
     finances |-> Finances(fd),
     specific_question |-> specific_question]

\* Lines 65-68 and 243-246 ("OpenAI API 키가 설정되지 않았습니다.")
AuthError == [status |-> "error", message |-> "OpenAI API key is not set."]

\* Lines 218-222 (f"JSON 파싱 오류: {str(e)}")
FormatError(msg, content) ==
    [status |-> "error", message |-> "JSON parse error: " \o msg, raw_content |-> content]

\* Lines 226-229 and 308-311 (f"분석 중 오류가 발생했습니다: {str(e)}")
AnalysisError(msg) == [status |-> "error", message |-> "Analysis error: " \o msg]

\* The content as received.
ContentOfUnstripped(text) == text

\* Line 196: response.choices[0].message.content.strip()
ContentOf(text) == Strip(text)

\* Lines 199-222 on the stripped content.
ParseContent(content) ==
    LET match == re_search(content)
        loaded == IF match.matched THEN json_loads(match.group1) ELSE json_loads(content)
    IN IF loaded.ok
       THEN [status |-> "success", valuation_data |-> loaded.val]
       ELSE FormatError(loaded.msg, content)

\* The content stripped, as analyze_company_value takes it.
AnalysisOfStripped(text) == Strip(text)

\* Line 299: response.choices[0].message.content
AnalysisOf(text) == text

\* Lines 185-193 and 288-296: the request, with the credential the openai
\* module holds when the request is made.
Request(p) == [model |-> "gpt-4-turbo", credential |-> openai_api_key, prompt |-> p]

(***************************************************************************)
(* Inputs of the LLMAnalyzer specification.                                *)
(***************************************************************************)
ApiKeys == {"", "sk-A", "sk-B"}
EnvKeys == {"", "sk-env"}

CompanyInfos == {[corp_name |-> "ACME", induty_code |-> "264", induty |-> "software"],
                 [corp_code |-> "00126380"]}

IndustryInfos == {PyNone, [sector |-> "IT", avg_per |-> "15"]}

Questions == {"Is the debt level safe?"}

AnalyzerDatasets ==
    {DatasetOf(<<>>),
     DatasetOf(<<Row(300, 200, 100, 0, 0, 0 - 5)>>),
     [years |-> <<2021>>, assets |-> <<300>>, liabilities |-> <<200>>, equity |-> <<100>>],
     [DatasetOf(<<Row(300, 200, 100, 50, 10, 5)>>) EXCEPT !.net_income = <<>>]}

SchemaObject ==
    "{\"company\": \"ACME\", \"ebitda_valuation\": {\"conservative\": 1, \"base\": 2, \"optimistic\": 3}, "
    \o "\"dcf_valuation\": {\"conservative\": 4, \"base\": 5, \"optimistic\": 6}}"

JsonTexts ==
    {SchemaObject, "{\"a\": 1}", "{}", "[1, 2]", "[{\"a\": 1}]", "42", "\"ok\"", "null"}

Prose == "The valuation follows."

OtherTexts ==
    {Prose, "", "no } json { here", "{not json}", "{\"a\": 1", "{\"a\": 1} {\"b\": 2}",
     "{\"a\": 1} see {note}"}

\* Prose, then the text in a Markdown code fence (the tilde form of the
\* fence: a TLA+ string cannot hold a backquote).
Fenced(t) == Prose \o "\n~~~json\n" \o t \o "\n~~~"
Padded(t) == " " \o t \o "\n"

ResponseTexts ==
    JsonTexts \cup OtherTexts \cup {Fenced(t) : t \in JsonTexts}
    \cup {Padded(t) : t \in {Prose, SchemaObject, "{not json}", "42"}}

\* str(e) of the exceptions openai.chat.completions.create raises
ProviderErrors == {"Connection error.", "Incorrect API key provided."}

\* What openai.chat.completions.create gives: a message with text, a
\* message whose content is None, or an exception.
BackendOutcomes ==
    {[kind |-> "text", content |-> t] : t \in ResponseTexts}
    \cup {[kind |-> "none"]}
    \cup {[kind |-> "error", message |-> m] : m \in ProviderErrors}

(***************************************************************************)
(* Actions of the LLMAnalyzer specification.                               *)
(***************************************************************************)
finVars == <<financial_data_list, years, i, idx, item, year_result, result, exc,
             ratios, valuation, call_no, previous>>

\* Lines 24-33: both analyzers are constructed with the key of the environment.
InitLLM ==
    /\ \E env \in EnvKeys :
          /\ api_key = [a \in Analyzers |-> env]
          /\ openai_api_key = IF env = "" THEN NoKey ELSE env
    /\ pc = "idle"
    /\ call = NoCall
    /\ financial_data = NoDataset
    /\ prompt = NoPrompt
    /\ backend_calls = <<>>
    /\ response = NoResponse
    /\ llm_result = NoResult
    /\ financial_data_list = <<>> /\ years = <<>>
    /\ i = 1 /\ idx = 1 /\ item = 1
    /\ year_result = Zeros
    /\ result = NoDataset
    /\ exc = "none"
    /\ ratios = NoRatios
    /\ valuation = NoValuation
    /\ call_no = 1 /\ previous = NoDataset
    /\ AppIdle

\* Lines 35-42.
SetApiKey(self, key) ==
    /\ pc = "idle"
    /\ api_key' = [api_key EXCEPT ![self] = key]
    /\ openai_api_key' = key
    /\ UNCHANGED <<pc, call, financial_data, prompt, backend_calls, response, llm_result, finVars, appVars>>

\* The method without the key check of lines 64 and 242.
EnteredUnchecked(self, fd, p) ==
    IF PromptError(fd) # ""
    THEN [pc |-> "returned", prompt |-> NoPrompt,
          llm_result |-> AnalysisError(PromptError(fd))]
    ELSE [pc |-> "prompt-built", prompt |-> p, llm_result |-> NoResult]

\* Lines 64-68 and 70-182, 242-246 and 248-285: where the method stands once
\* the key is checked and the prompt p is built, and what it has returned.
Entered(self, fd, p) ==
    IF api_key[self] = ""
    THEN [pc |-> "returned", prompt |-> NoPrompt, llm_result |-> AuthError]
    ELSE IF PromptError(fd) # ""
    THEN [pc |-> "returned", prompt |-> NoPrompt,
          llm_result |-> AnalysisError(PromptError(fd))]
    ELSE [pc |-> "prompt-built", prompt |-> p, llm_result |-> NoResult]

\* Lines 64-182.
AnalyzeCompanyValue(self, company_info, fd, industry_info) ==
    /\ pc = "idle"
    /\ call' = [method |-> "analyze_company_value", self |-> self,
                company_info |-> company_info, industry_info |-> industry_info]
    /\ financial_data' = fd
    /\ LET e == Entered(self, fd, CompanyValuePrompt(company_info, fd, industry_info))
       IN pc' = e.pc /\ prompt' = e.prompt /\ llm_result' = e.llm_result
    /\ UNCHANGED <<api_key, openai_api_key, backend_calls, response, finVars, appVars>>

\* Lines 242-285.
AnalyzeInvestmentPotential(self, company_info, fd, specific_question) ==
    /\ pc = "idle"
    /\ call' = [method |-> "analyze_investment_potential", self |-> self,
                company_info |-> company_info, specific_question |-> specific_question]
    /\ financial_data' = fd
    /\ LET e == Entered(self, fd, InvestmentPrompt(company_info, fd, specific_question))
       IN pc' = e.pc /\ prompt' = e.prompt /\ llm_result' = e.llm_result
    /\ UNCHANGED <<api_key, openai_api_key, backend_calls, response, finVars, appVars>>

\* Lines 185-193 and 288-296.
InvokeBackend ==
    /\ pc = "prompt-built"
    /\ backend_calls' = Append(backend_calls, Request(prompt))
    /\ response' \in BackendOutcomes
    /\ pc' = "backend-invoked"
    /\ UNCHANGED <<api_key, openai_api_key, call, financial_data, prompt, llm_result, finVars, appVars>>

\* Parsing that asks the backend again when the text does not decode.
ParseResponseRetrying ==
    /\ pc = "backend-invoked"
    /\ call.method = "analyze_company_value"
    /\ LET r == IF response.kind = "text" THEN ParseContent(ContentOf(response.content))
                ELSE AnalysisError("")
       IN IF "raw_content" \in DOMAIN r
          THEN pc' = "prompt-built" /\ llm_result' = llm_result
          ELSE pc' = "returned" /\ llm_result' = r
    /\ UNCHANGED <<api_key, openai_api_key, call, financial_data, prompt, backend_calls,
                   response, finVars, appVars>>

\* Lines 196-229 of analyze_company_value.
ParseResponse ==
    /\ pc = "backend-invoked"
    /\ call.method = "analyze_company_value"
    /\ llm_result' =
          IF response.kind = "error" THEN AnalysisError(response.message)
          ELSE IF response.kind = "none"
          THEN AnalysisError("'NoneType' object has no attribute 'strip'")
          ELSE ParseContent(ContentOf(response.content))
    /\ pc' = "returned"
    /\ UNCHANGED <<api_key, openai_api_key, call, financial_data, prompt, backend_calls,
                   response, finVars, appVars>>

\* Lines 299-311 of analyze_investment_potential.
ReturnAnalysis ==
    /\ pc = "backend-invoked"
    /\ call.method = "analyze_investment_potential"
    /\ llm_result' =
          IF response.kind = "error" THEN AnalysisError(response.message)
          ELSE IF response.kind = "none" THEN [status |-> "success", analysis |-> PyNone]
          ELSE [status |-> "success", analysis |-> AnalysisOf(response.content)]
    /\ pc' = "returned"
    /\ UNCHANGED <<api_key, openai_api_key, call, financial_data, prompt, backend_calls,
                   response, finVars, appVars>>

\* The caller has the result; the locals of the call are gone.
Return ==
    /\ pc = "returned"
    /\ pc' = "idle"
    /\ call' = NoCall
    /\ financial_data' = NoDataset
    /\ prompt' = NoPrompt
    /\ backend_calls' = <<>>
    /\ response' = NoResponse
    /\ llm_result' = NoResult
    /\ UNCHANGED <<api_key, openai_api_key, finVars, appVars>>

NextLLM ==
    \/ \E a \in Analyzers, k \in ApiKeys : SetApiKey(a, k)
    \/ \E a \in Analyzers, ci \in CompanyInfos, fd \in AnalyzerDatasets, ii \in IndustryInfos :
          AnalyzeCompanyValue(a, ci, fd, ii)
    \/ \E a \in Analyzers, ci \in CompanyInfos, fd \in AnalyzerDatasets, q \in Questions :
          AnalyzeInvestmentPotential(a, ci, fd, q)
    \/ InvokeBackend
    \/ ParseResponse
    \/ ReturnAnalysis
    \/ Return

SpecLLM == InitLLM /\ [][NextLLM]_vars

(***************************************************************************)
(* Properties of process_financial_data (specification Spec).              *)
(***************************************************************************)
ValueLists == {"assets", "liabilities", "equity", "revenue", "operating_profit", "net_income"}
Returned == pc = "done"
Raised == pc = "raised"

\* The years whose values have been appended to result.
StoredYears == 1..Len(result.assets)

\* A record that counts for a key: its account_id is one of the key's
\* aliases, its division is the one expected and its amount parses.
RecordMatches(rec, key) ==
    /\ Get(rec, "account_id", "") \in accounts[key]
    /\ \/ key \in {"assets", "liabilities", "equity"} /\ Get(rec, "sj_div", "") = "BS"
       \/ key \in {"revenue", "operating_profit", "net_income"}
          /\ Get(rec, "sj_div", "") \in {"IS", "CIS"}
    /\ Get(rec, "thstrm_amount", "0") # NullAmount
    /\ PyInt(RemoveCommas(Get(rec, "thstrm_amount", "0"))).ok
Converted(rec) == PyInt(RemoveCommas(Get(rec, "thstrm_amount", "0"))).value \div 1000000
MatchIndices(recs, key) == {n \in 1..Len(recs) : RecordMatches(recs[n], key)}

\* One year's records processed on their own, from a fresh accumulator.
RECURSIVE YearAlone(_, _, _)
YearAlone(yr, recs, n) ==
    IF n > Len(recs) THEN yr ELSE YearAlone(ProcessItem(yr, recs[n]).yr, recs, n + 1)

\* C1 (as claimed): for every payload list and years list the call returns,
\* and every value list of the returned dataset has length len(years), with
\* the dataset's years being the years passed in.
C1_ReturnsAlignedDataset ==
    /\ ~Raised
    /\ Returned => /\ result.years = years
                   /\ \A k \in ValueLists : Len(result[k]) = Len(years)

\* C2: a year whose payload is missing (None, or a dict without 'list') is
\* stored as 0 for every key, and every other stored year holds exactly what
\* its own records give when processed alone.
C2_MissingYearsAreZero ==
    \A j \in StoredYears : \A k \in ValueLists :
        result[k][j] = IF IsMissing(financial_data_list[j]) THEN 0
                       ELSE YearAlone(Zeros, financial_data_list[j].list, 1)[k]

C2_Witness ==
    /\ Returned
    /\ \E j \in StoredYears : \E j2 \in StoredYears :
        /\ j2 < j
        /\ IsMissing(financial_data_list[j])
        /\ \A k \in ValueLists : result[k][j] = 0
        /\ ~IsMissing(financial_data_list[j2])
        /\ result.assets[j2] # 0

\* C3 (as claimed): when two or more records of a year match a key, the
\* stored value is the converted amount of the first of them.
C3_FirstMatchWins ==
    \A j \in StoredYears : \A k \in ValueLists :
        ~IsMissing(financial_data_list[j]) =>
            LET recs == financial_data_list[j].list
                m == MatchIndices(recs, k)
            IN Cardinality(m) >= 2 => result[k][j] = Converted(recs[MinOf(m)])

\* C3 (amended): when two or more records of a year match a key, the stored
\* value is the converted amount of the first of them whose converted amount
\* is not 0, and 0 when every one of them converts to 0.
C3_FirstNonZeroMatchWins ==
    \A j \in StoredYears : \A k \in ValueLists :
        ~IsMissing(financial_data_list[j]) =>
            LET recs == financial_data_list[j].list
                m == MatchIndices(recs, k)
                nz == {n \in m : Converted(recs[n]) # 0}
            IN Cardinality(m) >= 2 =>
                result[k][j] = IF nz = {} THEN 0 ELSE Converted(recs[MinOf(nz)])

C3_Witness ==
    /\ Returned
    /\ \E j \in StoredYears :
        /\ ~IsMissing(financial_data_list[j])
        /\ LET recs == financial_data_list[j].list
               m == MatchIndices(recs, "assets")
           IN /\ Cardinality(m) >= 2
              /\ Converted(recs[MinOf(m)]) = 0
              /\ Converted(recs[MaxOf(m)]) # 0
              /\ result.assets[j] = Converted(recs[MaxOf(m)])

\* The sampled records of payload n carry this column.
SampleHasColumn(n, col) ==
    \E k \in 1..Len(financial_data_list[n].list) :
        k <= SampleSize /\ col \in DOMAIN financial_data_list[n].list[k]

\* C4 (as claimed): no exception leaves the call because of a record whose
\* amount field is missing or not numeric: neither the AttributeError of a
\* null amount nor the KeyError of a sample without an amount column.
C4_BadAmountNeverRaises ==
    ~(/\ Raised
      /\ \/ exc = "AttributeError"
         \/ /\ exc = "KeyError"
            /\ SampleHasColumn(i, "account_id")
            /\ SampleHasColumn(i, "account_nm")
            /\ ~SampleHasColumn(i, "thstrm_amount"))

\* C18: a call of process_financial_data made again with the same payloads
\* and years, after a call that returned a dataset, returns too, and returns
\* the dataset the preceding call returned; no step of a call changes the
\* payloads or the years list.
C18_SameInputsSameDataset ==
    [][/\ financial_data_list' = financial_data_list
       /\ years' = years
       /\ (call_no' > 1 /\ pc' \in {"done", "raised"})
          => pc' = "done" /\ result' = previous']_vars

C18_Witness ==
    /\ pc = "done" /\ call_no = 2
    /\ result = previous
    /\ Len(result.years) = 2
    /\ result.assets[1] # 0

\* A step that processed one record of the year without an exception.
RecordProcessed == pc = "items" /\ pc' = "items" /\ item' = item + 1
CurrentRecord == financial_data_list[idx].list[item]

\* C19: while the records of a year are processed, a key holding a non-zero
\* value is not changed by a later record, and a key holding 0 takes the
\* converted amount of the next record that matches it.
C19_NonZeroValueIsKept ==
    [][RecordProcessed
       => \A key \in KeySet :
             /\ year_result[key] # 0 => year_result'[key] = year_result[key]
             /\ (year_result[key] = 0 /\ RecordMatches(CurrentRecord, key))
                => year_result'[key] = Converted(CurrentRecord)]_vars

C19_Witness ==
    /\ pc = "items" /\ item = 3
    /\ LET recs == financial_data_list[idx].list
       IN \E key \in KeySet :
             /\ RecordMatches(recs[1], key) /\ RecordMatches(recs[2], key)
             /\ Converted(recs[1]) < 0
             /\ Converted(recs[2]) > 0
             /\ year_result[key] = Converted(recs[1])

AliasOf(rec, key) == Get(rec, "account_id", "") \in accounts[key]
ExpectedDivision(rec, key) ==
    \/ key \in {"assets", "liabilities", "equity"} /\ Get(rec, "sj_div", "") = "BS"
    \/ key \in {"revenue", "operating_profit", "net_income"}
       /\ Get(rec, "sj_div", "") \in {"IS", "CIS"}

\* C20: a record changes the value of a key only if its account_id is in
\* the key's alias list and its division is the one expected for the key; a
\* record whose alias is listed but whose division is another one, or
\* missing, changes no key.
C20_DivisionMustMatch ==
    [][RecordProcessed
       => /\ \A key \in KeySet :
                year_result'[key] # year_result[key]
                => AliasOf(CurrentRecord, key) /\ ExpectedDivision(CurrentRecord, key)
          /\ (/\ \E key \in KeySet : AliasOf(CurrentRecord, key)
              /\ \A key \in KeySet :
                    AliasOf(CurrentRecord, key) => ~ExpectedDivision(CurrentRecord, key))
             => year_result' = year_result]_vars

C20_Witness ==
    /\ pc = "items" /\ item = 2
    /\ LET rec == financial_data_list[idx].list[1]
       IN /\ AliasOf(rec, "assets")
          /\ Get(rec, "sj_div", "") = "IS"
          /\ Get(rec, "thstrm_amount", "0") = "3,000,000"
    /\ year_result = [key \in KeySet |-> 0]

\* The amount strings of the model's records and the integers they denote.
AmountTable ==
    <<(<<"3,000,000", 3000000>>), (<<"999,999", 999999>>), (<<"-1", 0 - 1>>),
      (<<"-1,000,001", 0 - 1000001>>), (<<"-1,000,000", 0 - 1000000>>),
      (<<"-999,999", 0 - 999999>>), (<<"0", 0>>), (<<"1,000,000", 1000000>>),
      (<<"1,999,999", 1999999>>)>>
HasAmount(rec) == \E n \in 1..Len(AmountTable) : Get(rec, "thstrm_amount", "0") = AmountTable[n][1]
AmountOf(rec) ==
    AmountTable[CHOOSE n \in 1..Len(AmountTable) :
                    Get(rec, "thstrm_amount", "0") = AmountTable[n][1]][2]

\* C21: the value stored for an accepted record is the floor of its amount
\* over a million: the integer v with v * 1000000 <= amount < (v + 1) * 1000000,
\* so -1 for the amounts -999999 .. -1 and 0 for the amounts 0 .. 999999.
C21_StoredValueIsFloor ==
    [][RecordProcessed
       => \A key \in KeySet :
             (/\ year_result[key] = 0
              /\ AliasOf(CurrentRecord, key) /\ ExpectedDivision(CurrentRecord, key)
              /\ HasAmount(CurrentRecord))
             => LET amount == AmountOf(CurrentRecord)
                    v == year_result'[key]
                IN /\ v * 1000000 <= amount /\ amount < (v + 1) * 1000000
                   /\ (0 - 999999 <= amount /\ amount <= 0 - 1) => v = 0 - 1
                   /\ (0 <= amount /\ amount <= 999999) => v = 0]_vars

C21_Witness ==
    /\ pc = "items" /\ item = 2
    /\ Get(financial_data_list[idx].list[1], "thstrm_amount", "0") = "-999,999"
    /\ year_result.assets = 0 - 1

(***************************************************************************)
(* Properties of calculate_valuation (specification SpecValuation).        *)
(***************************************************************************)
ValuationReturned == pc = "valuation_done"
NetIncome == financial_data.net_income
OperatingProfit == financial_data.operating_profit
Equity == financial_data.equity
NYears == Len(financial_data.years)

HasProfit(j) == NetIncome[j] > 0 \/ OperatingProfit[j] > 0
ReferenceYearExists == \E j \in 1..NYears : HasProfit(j)
\* The most recent year with a positive net income or operating profit.
ReferenceYear == CHOOSE j \in 1..NYears : HasProfit(j) /\ \A n \in (j + 1)..NYears : ~HasProfit(n)

\* The three method values of the claim, in tenths: net_income * 15,
\* operating_profit * 1.2 * 8 and equity.
ClaimedPer == IF NetIncome[ReferenceYear] > 0 THEN NetIncome[ReferenceYear] * 150 ELSE 0
ClaimedEbitda ==
    IF OperatingProfit[ReferenceYear] * 12 > 0 THEN OperatingProfit[ReferenceYear] * 12 * 8 ELSE 0
ClaimedNav == Equity[ReferenceYear] * 10

\* C5: when net income and operating profit are <= 0 in every year (also
\* with no year at all), the valuation is the single insufficient-data entry
\* with value "N/A" and range (0, 0), and nothing is raised.
C5_InsufficientData ==
    /\ exc = "none"
    /\ (ValuationReturned /\ \A j \in 1..NYears : NetIncome[j] <= 0 /\ OperatingProfit[j] <= 0)
        => /\ valuation.valuations = <<[method |-> "insufficient data", value |-> "N/A"]>>
           /\ valuation.range = <<0, 0>>

C5_Witness ==
    /\ ValuationReturned
    /\ NYears >= 1
    /\ \A j \in 1..NYears : NetIncome[j] <= 0 /\ OperatingProfit[j] <= 0
    /\ \E j \in 1..NYears : NetIncome[j] < 0
    /\ valuation.range = <<0, 0>>
    /\ Len(valuation.valuations) = 1

\* C6: with a reference year the valuation has exactly the entries PER,
\* EBITDA multiple, net-asset value, in this order, showing net_income*15
\* (0 unless net_income > 0), operating_profit*1.2*8 (0 unless positive) and
\* equity; net_income=100, operating_profit=50, equity=500 gives 1,500, 480,
\* 500 and range (480, 1500).
C6_ThreeMethods ==
    (ValuationReturned /\ ReferenceYearExists) =>
        /\ valuation.valuations =
              <<[method |-> "PER", value |-> FormatAmount(ClaimedPer)],
                [method |-> "EBITDA Multiple", value |-> FormatAmount(ClaimedEbitda)],
                [method |-> "NAV", value |-> FormatAmount(ClaimedNav)]>>
        /\ (/\ NetIncome[ReferenceYear] = 100
            /\ OperatingProfit[ReferenceYear] = 50
            /\ Equity[ReferenceYear] = 500)
            => /\ valuation.valuations[1].value = "1,500"
               /\ valuation.valuations[2].value = "480"
               /\ valuation.valuations[3].value = "500"
               /\ valuation.range = <<4800, 15000>>

C6_Witness ==
    /\ ValuationReturned /\ ReferenceYearExists
    /\ NetIncome[ReferenceYear] = 100
    /\ OperatingProfit[ReferenceYear] = 50
    /\ Equity[ReferenceYear] = 500
    /\ Len(valuation.valuations) = 3
    /\ valuation.range = <<4800, 15000>>

\* C7: the range is (min, max) over the strictly positive ones of the three
\* method values, so a net-asset value <= 0 is never the minimum; with no
\* positive value the range is (0, 0).
C7_RangeOverPositiveValues ==
    ValuationReturned =>
        IF ~ReferenceYearExists THEN valuation.range = <<0, 0>>
        ELSE LET positive == {v \in {ClaimedPer, ClaimedEbitda, ClaimedNav} : v > 0}
             IN IF positive = {} THEN valuation.range = <<0, 0>>
                ELSE /\ valuation.range[1] \in positive
                     /\ valuation.range[2] \in positive
                     /\ \A v \in positive : valuation.range[1] <= v /\ v <= valuation.range[2]

C7_Witness ==
    /\ ValuationReturned /\ ReferenceYearExists
    /\ ClaimedNav < 0
    /\ ClaimedPer > 0 /\ ClaimedEbitda > 0 /\ ClaimedEbitda < ClaimedPer
    /\ valuation.range = <<ClaimedEbitda, ClaimedPer>>

\* C22: the year calculate_valuation takes its figures from is the greatest
\* index with net_income > 0 or operating_profit > 0 -- no later index has
\* either -- and the three entries show the net income, operating profit
\* and equity of that one index.
C22_LatestProfitableYear ==
    (ValuationReturned /\ ReferenceYearExists) =>
        LET j == FindValidYear(financial_data, NYears)
        IN /\ j \in 1..NYears
           /\ NetIncome[j] > 0 \/ OperatingProfit[j] > 0
           /\ \A n \in (j + 1)..NYears : NetIncome[n] <= 0 /\ OperatingProfit[n] <= 0
           /\ valuation.valuations[1].value =
                 FormatAmount(IF NetIncome[j] > 0 THEN NetIncome[j] * 150 ELSE 0)
           /\ valuation.valuations[2].value =
                 FormatAmount(IF OperatingProfit[j] > 0 THEN OperatingProfit[j] * 96 ELSE 0)
           /\ valuation.valuations[3].value = FormatAmount(Equity[j] * 10)

C22_Witness ==
    /\ ValuationReturned /\ NYears = 2
    /\ NetIncome[1] = 100 /\ OperatingProfit[1] = 0 - 50 /\ Equity[1] = 500
    /\ NetIncome[2] = 0 /\ OperatingProfit[2] = 0 /\ Equity[2] = 2000
    /\ valuation.valuations[1].value = "1,500"
    /\ valuation.valuations[2].value = "0"
    /\ valuation.valuations[3].value = "500"

\* C27: calculate_valuation returns range (0, 0) exactly when it returns
\* the insufficient-data result; with a reference year the range (min, max)
\* satisfies 0 < min <= max, and min and max are each one of the three
\* method values.
C27_RangeZeroIffInsufficient ==
    ValuationReturned =>
        /\ (valuation.range = <<0, 0>>) <=> (valuation = InsufficientData)
        /\ ReferenceYearExists =>
              /\ 0 < valuation.range[1] /\ valuation.range[1] <= valuation.range[2]
              /\ valuation.range[1] \in {ClaimedPer, ClaimedEbitda, ClaimedNav}
              /\ valuation.range[2] \in {ClaimedPer, ClaimedEbitda, ClaimedNav}

C27_Witness ==
    /\ ValuationReturned /\ ReferenceYearExists
    /\ NetIncome[ReferenceYear] < 0 /\ Equity[ReferenceYear] < 0
    /\ valuation.range = <<ClaimedEbitda, ClaimedEbitda>>
    /\ valuation.range[1] > 0

(***************************************************************************)
(* Properties of calculate_financial_ratios (specification SpecRatios).    *)
(***************************************************************************)
RatiosReturned == pc = "ratios_done"
Revenue == financial_data.revenue

\* A percentage string: digits, a point, two decimals and '%'.
IsPercentage(str) == str # "-" /\ Len(str) >= 5 /\ SubSeq(str, Len(str), Len(str)) = "%"

\* The entry of one ratio list for a denominator d.
SentinelIffNoDenominator(entry, d) ==
    /\ d <= 0 => entry = "-"
    /\ d > 0 => IsPercentage(entry)

\* C8: no arithmetic error is raised, and every ratio entry is the sentinel
\* "-" when its denominator is <= 0 and a percentage string when it is > 0:
\* growth against revenue[i-1], the two margins against revenue[i], ROE
\* against equity[i], the debt ratio against assets[i].
C8_SentinelForNonPositiveDenominator ==
    /\ exc # "ZeroDivisionError"
    /\ RatiosReturned =>
        /\ \A j \in 2..NYears :
              SentinelIffNoDenominator(ratios.revenue_growth[j], Revenue[j - 1])
        /\ \A j \in 1..NYears :
              /\ SentinelIffNoDenominator(ratios.profit_margin[j], Revenue[j])
              /\ SentinelIffNoDenominator(ratios.net_margin[j], Revenue[j])
              /\ SentinelIffNoDenominator(ratios.roe[j], Equity[j])
              /\ SentinelIffNoDenominator(ratios.debt_ratio[j], financial_data.assets[j])

C8_Witness ==
    /\ RatiosReturned
    /\ \E j \in 2..NYears :
        /\ Revenue[j - 1] < 0 /\ ratios.revenue_growth[j] = "-"
        /\ Revenue[j] > 0 /\ IsPercentage(ratios.profit_margin[j])
        /\ Equity[j] < 0 /\ ratios.roe[j] = "-"
        /\ financial_data.assets[j] > 0 /\ IsPercentage(ratios.debt_ratio[j])

\* C9: the growth entry of the first year is the sentinel "-", whatever the
\* revenue values are.
C9_FirstGrowthIsSentinel ==
    RatiosReturned => Len(ratios.revenue_growth) >= 1 /\ ratios.revenue_growth[1] = "-"

C9_Witness ==
    /\ RatiosReturned
    /\ NYears >= 2 /\ Revenue[1] > 0 /\ Revenue[2] > Revenue[1]
    /\ ratios.revenue_growth[1] = "-"
    /\ IsPercentage(ratios.revenue_growth[2])

\* The strings "x.xx%" of the hundredths nearest to
\* (cur / prev - 1) * 100, for prev > 0.
NearestGrowthStrings(cur, prev) ==
    LET x == (cur - prev) * 10000
        near == {h \in {x \div prev, (x \div prev) + 1} : 2 * Abs(h * prev - x) <= prev}
    IN {(IF x < 0 THEN "-" ELSE "") \o IntStr(Abs(h) \div 100) \o "."
        \o Digits[((Abs(h) \div 10) % 10) + 1] \o Digits[(Abs(h) % 10) + 1] \o "%" : h \in near}

\* C10: for every year after the first whose preceding year has revenue > 0,
\* the growth entry is (revenue[i]/revenue[i-1] - 1)*100 to two decimals
\* with a '%' suffix; revenue [1000, 1100, 1210] gives ["-", "10.00%", "10.00%"].
C10_GrowthFromPrecedingYear ==
    RatiosReturned =>
        /\ \A j \in 2..NYears :
              Revenue[j - 1] > 0 =>
                  ratios.revenue_growth[j] \in NearestGrowthStrings(Revenue[j], Revenue[j - 1])
        /\ Revenue = <<1000, 1100, 1210>> =>
              ratios.revenue_growth = <<"-", "10.00%", "10.00%">>

C10_Witness ==
    /\ RatiosReturned
    /\ Revenue = <<1000, 1100, 1210>>
    /\ ratios.revenue_growth = <<"-", "10.00%", "10.00%">>

\* C28: for every dataset whose lists are as long as years, the dataset
\* with zero years included, each of the five ratio lists and the list of
\* year labels has len(years) entries, the label of entry j being years[j].
C28_RatioListsAlignedWithYears ==
    RatiosReturned =>
        /\ \A name \in RatioNames : Len(ratios[name]) = NYears
        /\ Len(ratios.years) = NYears
        /\ \A j \in 1..NYears : ratios.years[j] = IntStr(financial_data.years[j])

(***************************************************************************)
(* Properties of LLMAnalyzer (specification SpecLLM).                      *)
(***************************************************************************)
LLMReturned(method) == pc = "returned" /\ call.method = method
BackendInvoked == Len(backend_calls) > 0
BackendText == BackendInvoked /\ response.kind = "text"
IsFormatError(r) == r.status = "error" /\ "raw_content" \in DOMAIN r

\* Response texts that hold no decodable JSON: prose, prose with stray
\* braces, a truncated object, and text in braces that is not JSON.
NoJsonTexts ==
    {"The valuation follows.", " The valuation follows.\n", "", "no } json { here",
     "{not json}", " {not json}\n", "{\"a\": 1"}

IsBlank(s) == \A p \in 1..Len(s) : Char(s, p) \in {" ", "\t", "\n", "\r", "\f"}

\* r is t without its leading and trailing whitespace.
IsStripped(r, t) ==
    /\ \E a \in 1..(Len(t) + 1) :
          /\ a + Len(r) - 1 <= Len(t)
          /\ SubSeq(t, a, a + Len(r) - 1) = r
          /\ IsBlank(SubSeq(t, 1, a - 1))
          /\ IsBlank(SubSeq(t, a + Len(r), Len(t)))
    /\ r # "" => ~IsBlank(Char(r, 1)) /\ ~IsBlank(Char(r, Len(r)))

JInt(n) == [t |-> "int", v |-> n]
JStr(x) == [t |-> "str", v |-> x]
JObj(d) == [t |-> "dict", v |-> d]
Scenarios(c, b, o) == JObj([conservative |-> JInt(c), base |-> JInt(b), optimistic |-> JInt(o)])

\* JSON objects as text, each with the value it denotes.
ObjectTexts ==
    {<<"{\"company\": \"ACME\", \"ebitda_valuation\": {\"conservative\": 1, \"base\": 2, \"optimistic\": 3}, "
       \o "\"dcf_valuation\": {\"conservative\": 4, \"base\": 5, \"optimistic\": 6}}",
       JObj([company |-> JStr("ACME"), ebitda_valuation |-> Scenarios(1, 2, 3),
             dcf_valuation |-> Scenarios(4, 5, 6)])>>,
     <<"{\"a\": 1}", JObj([a |-> JInt(1)])>>,
     <<"{}", JObj(<<>>)>>}

InFence(text) == "The valuation follows.\n~~~json\n" \o text \o "\n~~~"

\* C12: for a response made of prose without braces followed by one fenced
\* JSON object, analyze_company_value returns success and valuation_data is
\* the value the object denotes, the same as for the object text alone.
C12_FencedObjectIsDecoded ==
    \A o \in ObjectTexts :
        (/\ LLMReturned("analyze_company_value") /\ BackendText
         /\ response.content \in {InFence(o[1]), o[1]})
        => llm_result = [status |-> "success", valuation_data |-> o[2]]

C12_Witness ==
    /\ LLMReturned("analyze_company_value") /\ BackendText
    /\ \E o \in ObjectTexts : response.content = InFence(o[1]) /\ Len(o[1]) > 100
    /\ llm_result.status = "success"
    /\ llm_result.valuation_data.v.dcf_valuation.v.base.v = 5

IsDictWith(x, keys) == "t" \in DOMAIN x /\ x.t = "dict" /\ keys \subseteq DOMAIN x.v

\* The structure the prompt asks for (lines 166-178).
HasSchema(x) ==
    /\ IsDictWith(x, {"company", "ebitda_valuation", "dcf_valuation"})
    /\ \A k \in {"ebitda_valuation", "dcf_valuation"} :
          IsDictWith(x.v[k], {"conservative", "base", "optimistic"})

\* C13: every success result of analyze_company_value carries a payload of
\* the required structure; a response that decodes to anything else does not
\* give success.
C13_SuccessPayloadHasSchema ==
    (LLMReturned("analyze_company_value") /\ llm_result.status = "success")
    => HasSchema(llm_result.valuation_data)

LLMMethods == {"analyze_company_value", "analyze_investment_potential"}
InCall == call.method \in LLMMethods
KeyNotSetResult == [status |-> "error", message |-> "OpenAI API key is not set."]

\* C14: a call of analyze_company_value or analyze_investment_potential on
\* an analyzer whose api_key is empty returns the key-not-set error and sends
\* no request to the backend.
C14_NoKeyNoBackendCall ==
    (InCall /\ api_key[call.self] = "")
    => /\ pc = "returned"
       /\ llm_result = KeyNotSetResult
       /\ backend_calls = <<>>
       /\ response = NoResponse

C14_Witness ==
    /\ LLMReturned("analyze_investment_potential")
    /\ api_key[call.self] = ""
    /\ \E other \in Analyzers : api_key[other] # "" /\ openai_api_key = api_key[other]
    /\ llm_result = KeyNotSetResult
    /\ backend_calls = <<>>

Failed == InCall /\ pc = "returned" /\ llm_result.status # "success"

\* How a failed call failed: without a key, on the backend's text, or on an
\* exception (of the backend, or raised while the prompt was built).
FailureKind ==
    IF api_key[call.self] = "" THEN "auth"
    ELSE IF BackendText THEN "format"
    ELSE "provider"

\* C15: the status of a failed call tells the kind of failure -- a provider
\* or format failure does not carry the status of an authentication failure,
\* a format failure does not carry the status of a provider failure -- and no
\* failed call returns a valuation payload.
C15_StatusTellsFailureKind ==
    Failed
    => /\ "valuation_data" \notin DOMAIN llm_result
       /\ FailureKind # "auth" => llm_result.status # AuthError.status
       /\ FailureKind = "format" => llm_result.status # AnalysisError("").status

\* The four outcomes, read off the returned result.
OutcomesOf(r) ==
    {o \in {"parsed-success", "parse-failed", "provider-failed", "auth-failed"} :
        \/ o = "parsed-success" /\ r.status = "success" /\ "valuation_data" \in DOMAIN r
        \/ o = "parse-failed" /\ r.status = "error" /\ "raw_content" \in DOMAIN r
        \/ o = "auth-failed" /\ r = KeyNotSetResult
        \/ o = "provider-failed" /\ r.status = "error" /\ DOMAIN r = {"status", "message"}
           /\ StartsWith(r.message, 1, "Analysis error: ")}

\* What every step of a call of analyze_company_value keeps, whatever the
\* order of the stages: at most one request to the backend, exactly one
\* outcome on return, the analyzer's key and the module's key unchanged.
CallStepKeeps ==
    /\ Len(backend_calls') <= 1
    /\ (pc' = "returned" /\ pc # "returned") => Cardinality(OutcomesOf(llm_result')) = 1
    /\ api_key' = api_key /\ openai_api_key' = openai_api_key

StagesInOrder ==
    /\ (pc' = "prompt-built" /\ pc # pc') => pc = "idle"
    /\ (pc' = "backend-invoked" /\ pc # pc')
       => pc = "prompt-built" /\ Len(backend_calls') = Len(backend_calls) + 1

C17_AnalysisIsResponseText ==
    (LLMReturned("analyze_investment_potential") /\ BackendText)
    => llm_result = [status |-> "success", analysis |-> response.content]

C17_Witness ==
    /\ LLMReturned("analyze_investment_potential") /\ BackendText
    /\ Char(response.content, 1) = " "
    /\ Char(response.content, 2) = "{"
    /\ Char(response.content, Len(response.content)) = "\n"
    /\ llm_result.analysis = response.content

\* Responses that hold a JSON object followed by text with a closing brace.
ObjectThenBraces == {"{\"a\": 1} {\"b\": 2}", "{\"a\": 1} see {note}"}

\* C23: for a response that holds a valid JSON object followed by further
\* text containing a closing brace, analyze_company_value decodes the first
\* balanced block and returns success with its value.
C23_FirstBalancedBlockIsDecoded ==
    (/\ LLMReturned("analyze_company_value") /\ BackendText
     /\ response.content \in ObjectThenBraces)
    => llm_result = [status |-> "success", valuation_data |-> JObj([a |-> JInt(1)])]


\* C25: analyzer instances share no mutable state; with instances holding
\* different credentials, every backend invocation is made with the
\* credential configured on the instance that makes the call.
C25_RequestCarriesOwnCredential ==
    \A k \in 1..Len(backend_calls) : backend_calls[k].credential = api_key[call.self]

(***************************************************************************)
(* BridgeApp (bridge_app.py): the Streamlit session.  session_state is the *)
(* dict st.session_state; a key that is not in its DOMAIN is not set.      *)
(***************************************************************************)
DelItem(d, key) == [k \in DOMAIN d \ {key} |-> d[k]]

\* process_financial_data as a function of its arguments: the debug block,
\* the per-year loop and the summary frame, with the exception that leaves
\* the function ("none" when it returns).
RECURSIVE DebugBlock(_, _, _)
DebugBlock(fdl, ys, j) ==
    IF j > Len(fdl) THEN "none"
    ELSE IF j > Len(ys) THEN "IndexError"
    ELSE IF DebugSamples(fdl[j]) /\ SampleRaises(fdl[j]) THEN "KeyError"
    ELSE DebugBlock(fdl, ys, j + 1)

RECURSIVE ProcessItems(_, _, _)
\* Lines 106-149 for the records after record k, r being what record k gave.
ItemsAfter(r, fin_data, k) ==
    IF r.exc # "none" THEN r ELSE ProcessItems(r.yr, fin_data, k + 1)

ProcessItems(yr, fin_data, k) ==
    IF k > Len(fin_data) THEN [yr |-> yr, exc |-> "none"]
    ELSE ItemsAfter(ProcessItem(yr, fin_data[k]), fin_data, k)

RECURSIVE ProcessYears(_, _, _, _)
\* Lines 151-168 for year j, r being what its records gave.
YearsAfter(res, r, fdl, j) ==
    IF r.exc # "none" THEN [result |-> res, exc |-> r.exc]
    ELSE ProcessYears(AppendYear(res, r.yr), r.yr, fdl, j + 1)

ProcessYears(res, prev, fdl, j) ==
    IF j > Len(fdl) THEN [result |-> res, exc |-> "none"]
    ELSE IF IsMissing(fdl[j])
    THEN ProcessYears(AppendYear(res, Zeros), NewYearResult(prev), fdl, j + 1)
    ELSE YearsAfter(res, ProcessItems(NewYearResult(prev), fdl[j].list, 1), fdl, j)

\* Lines 171-208 on what the loop gave.
Summarised(r, ys) ==
    IF r.exc # "none" THEN [exc |-> r.exc, result |-> NoDataset]
    ELSE IF SummaryRaises(r.result, ys) THEN [exc |-> "ValueError", result |-> NoDataset]
    ELSE [exc |-> "none", result |-> r.result]

process_financial_data(fdl, ys) ==
    IF DebugBlock(fdl, ys, 1) # "none"
    THEN [exc |-> DebugBlock(fdl, ys, 1), result |-> NoDataset]
    ELSE Summarised(ProcessYears(EmptyResult(ys), Zeros, fdl, 1), ys)

\* datetime.now().year, and the years the user picks in the year selectbox
\* (a subset of range(current_year - 5, current_year)).
current_year == 2026
YearChoices == {current_year - 5, current_year - 1}

\* The companies of the search result.
Companies ==
    {[corp_code |-> "00126380", corp_name |-> "ACME", stock_code |-> "005930"],
     [corp_code |-> "00164779", corp_name |-> "BOLT", stock_code |-> "000660"]}

\* DartAPI.get_company_info when the request succeeds.
CompanyInfoOf(company) ==
    [corp_code |-> company.corp_code, corp_name |-> company.corp_name,
     induty_code |-> "264", induty |-> "software"]

\* DartAPI.get_financial_statements: the disclosure service has total
\* assets of yr - 2000 millions for the first company in every year, and of
\* yr - 1900 millions for the second company from current_year - 4 on;
\* every other request gives None.
get_financial_statements(corp_code, yr) ==
    IF corp_code = "00126380"
    THEN ListPayload(<<MkItem("ifrs-full_Assets", "name", "BS",
                              IntStrCommas((yr - 2000) * Million))>>)
    ELSE IF corp_code = "00164779" /\ yr >= current_year - 4
    THEN ListPayload(<<MkItem("ifrs-full_Assets", "name", "BS",
                              IntStrCommas((yr - 1900) * Million))>>)
    ELSE PyNone

\* Lines 190-196: the payloads and years that pass the filter, in order.
IsValidPayload(fin_data) ==
    fin_data # PyNone /\ "list" \in DOMAIN fin_data /\ Len(fin_data.list) > 0

RECURSIVE ValidYears(_, _, _)
ValidYears(corp_code, ys, j) ==
    IF j > Len(ys) THEN <<>>
    ELSE (IF IsValidPayload(get_financial_statements(corp_code, ys[j]))
          THEN <<ys[j]>> ELSE <<>>) \o ValidYears(corp_code, ys, j + 1)

\* Lines 207-216 on what process_financial_data gave.
Processed(r) ==
    IF r.exc # "none" THEN [kind |-> "raised", exc |-> r.exc]
    ELSE [kind |-> "dataset", financial_data |-> r.result]

\* Lines 173-216 when the cache is not used: what is fetched and computed
\* for a company and a selected year.
Fetched(corp_code, year) ==
    LET valid_years == ValidYears(corp_code, <<year - 2, year - 1, year>>, 1)
        valid_list == [j \in 1..Len(valid_years) |->
                          get_financial_statements(corp_code, valid_years[j])]
    IN IF valid_years = <<>> THEN [kind |-> "none"]
       ELSE Processed(process_financial_data(valid_list, valid_years))

\* Fetched for every company and every year that can be selected.
FetchedFor ==
    [corp_code \in {c.corp_code : c \in Companies}, year \in YearChoices \cup {current_year - 1}
        |-> Fetched(corp_code, year)]

\* Lines 172-173.
CacheHit(ss, corp_code) ==
    /\ "financial_data" \in DOMAIN ss /\ "last_year" \in DOMAIN ss
    /\ ss.last_year = ss.selected_year

\* Lines 162-216: the session after the call and the pair it returns
\* (ret: the data and the success flag), or the exception of process_financial_data that leaves it.
LoadFinancialDataOf(ss, corp_code) ==
    IF CacheHit(ss, corp_code)
    THEN [session |-> ss, ret |-> [data |-> ss.financial_data, success |-> TRUE], exc |-> "none"]
    ELSE LET f == FetchedFor[corp_code, ss.selected_year]
         IN IF f.kind = "none" THEN [session |-> ss, ret |-> [data |-> PyNone, success |-> FALSE], exc |-> "none"]
            ELSE IF f.kind = "raised" THEN [session |-> ss, ret |-> [data |-> PyNone, success |-> FALSE], exc |-> f.exc]
            ELSE [session |-> SetItem(SetItem(ss, "financial_data", f.financial_data),
                                      "last_year", ss.selected_year),
                  ret |-> [data |-> f.financial_data, success |-> TRUE], exc |-> "none"]

\* Lines 657: the tabs are drawn when a company and its info are there.
CompanyShown(ss) == ss.selected_company # PyNone /\ ss.company_info # PyNone

\* Lines 21-58: the session BridgeApp.__init__ finds or creates.
InitApp ==
    /\ session_state = [selected_company |-> PyNone, company_info |-> PyNone,
                        selected_year |-> current_year - 1]
    /\ load_result = NoLoad
    /\ displayed = NoDisplay
    /\ pc = "app"
    /\ financial_data_list = <<>> /\ years = <<>>
    /\ i = 1 /\ idx = 1 /\ item = 1
    /\ year_result = Zeros
    /\ result = NoDataset
    /\ exc = "none"
    /\ financial_data = NoDataset
    /\ ratios = NoRatios
    /\ valuation = NoValuation
    /\ call_no = 1 /\ previous = NoDataset
    /\ LlmIdle

appRest == <<financial_data_list, years, i, idx, item, year_result, result, exc,
             financial_data, ratios, valuation, call_no, previous, llmVars>>

\* Lines 74-82, the button of the sidebar: on_company_select (lines 115-117),
\* then the company info when get_company_info gives one.
SetupSidebar ==
    /\ pc = "app"
    /\ \E company \in Companies : \E company_info \in {CompanyInfoOf(company), PyNone} :
          session_state' =
              LET ss == SetItem(session_state, "selected_company", company)
              IN IF company_info # PyNone THEN SetItem(ss, "company_info", company_info) ELSE ss
    /\ UNCHANGED <<pc, load_result, displayed, appRest>>

\* Lines 218-247 with the button pressed: on_year_change (lines 119-121) and
\* the cached dataset deleted.
YearSelector ==
    /\ pc = "app" /\ CompanyShown(session_state)
    /\ \E year \in YearChoices :
          session_state' = DelItem(SetItem(session_state, "selected_year", year), "financial_data")
    /\ UNCHANGED <<pc, load_result, displayed, appRest>>

\* Lines 162-216, called by a display operation for the selected company
\* (lines 675-695).
LoadFinancialData ==
    /\ pc = "app" /\ CompanyShown(session_state)
    /\ pc' = "shown"
    /\ LET r == LoadFinancialDataOf(session_state, session_state.selected_company.corp_code)
       IN /\ session_state' = r.session
          /\ load_result' = IF r.exc # "none" THEN [raised |-> r.exc] ELSE r.ret
    /\ UNCHANGED <<displayed, appRest>>


\* Lines 517-518 and the call of line 635 for self.llm_analyzer.
result_key == "llmanalyzer_analysis_result"
valuation_data_key == "llmanalyzer_valuation_data"
question_result_key == "gpt4_question_result"

\* Lines 523-527.
IndustryInfoOf(company_info) ==
    [sector |-> Get(company_info, "induty", Unknown), avg_per |-> "15.2", avg_pbr |-> "1.8"]

\* The JSON object {} as a payload.
EmptyPayload == [k \in {} |-> 0]

\* What analyzer.analyze_company_value gives in the session.  The backend
\* answers the prompt it is sent, so a decoded payload is given as the
\* prompt it answers; the backend may also answer {} or fail.
CompanyValueResults(company_info, fd, industry_info) ==
    {AuthError}
    \cup IF PromptError(fd) # "" THEN {AnalysisError(PromptError(fd))}
         ELSE {[status |-> "success",
                valuation_data |-> [answers |-> CompanyValuePrompt(company_info, fd, industry_info)]],
               [status |-> "success", valuation_data |-> EmptyPayload],
               AnalysisError("Connection error.")}

\* What analyzer.analyze_investment_potential gives in the session.
QuestionResults(company_info, fd, specific_question) ==
    {AuthError}
    \cup IF PromptError(fd) # "" THEN {AnalysisError(PromptError(fd))}
         ELSE {[status |-> "success",
                analysis |-> [answers |-> InvestmentPrompt(company_info, fd, specific_question)]],
               AnalysisError("Connection error.")}

\* `if valuation_data:` on a payload
TruthyPayload(x) == x # PyNone /\ DOMAIN x # {}

NoData == [rerun |-> FALSE, kind |-> "no-data", shown |-> PyNone]
Nothing == [rerun |-> FALSE, kind |-> "nothing", shown |-> PyNone]

\* Lines 502-559, mode "기업 가치 종합 분석" with the button pressed: the
\* dataset is loaded, the analysis runs, its result is stored and shown.
RunCompanyAnalysis ==
    /\ pc = "app" /\ CompanyShown(session_state)
    /\ pc' = "shown"
    /\ LET l == LoadFinancialDataOf(session_state, session_state.selected_company.corp_code)
           company_info == session_state.company_info
       IN /\ load_result' = IF l.exc # "none" THEN [raised |-> l.exc] ELSE l.ret
          /\ IF l.exc # "none" \/ ~l.ret.success
             THEN session_state' = l.session /\ displayed' = NoData
             ELSE \E r \in CompanyValueResults(company_info, l.ret.data, IndustryInfoOf(company_info)) :
                     LET stored == SetItem(l.session, result_key, r)
                         shows == r.status = "success" /\ TruthyPayload(r.valuation_data)
                     IN /\ session_state' = IF shows
                                            THEN SetItem(stored, valuation_data_key, r.valuation_data)
                                            ELSE stored
                        /\ displayed' = IF shows
                                        THEN [rerun |-> TRUE, kind |-> "valuation",
                                              shown |-> r.valuation_data]
                                        ELSE [rerun |-> TRUE, kind |-> "error", shown |-> PyNone]
    /\ UNCHANGED appRest

\* Lines 502-518 and 561-579, the same mode without the button: a stored
\* successful result is shown again.
ShowCompanyAnalysis ==
    /\ pc = "app" /\ CompanyShown(session_state)
    /\ pc' = "shown"
    /\ LET l == LoadFinancialDataOf(session_state, session_state.selected_company.corp_code)
           valuation_data == Get(l.session, valuation_data_key, PyNone)
       IN /\ load_result' = IF l.exc # "none" THEN [raised |-> l.exc] ELSE l.ret
          /\ session_state' = l.session
          /\ displayed' =
                IF l.exc # "none" \/ ~l.ret.success THEN NoData
                ELSE IF result_key \in DOMAIN l.session
                        /\ l.session[result_key].status = "success"
                        /\ TruthyPayload(valuation_data)
                THEN [rerun |-> FALSE, kind |-> "valuation", shown |-> valuation_data]
                ELSE Nothing
    /\ UNCHANGED appRest

\* Lines 502-518 and 581-623, mode "맞춤형 질문 분석" with a question and the
\* button pressed.
RunQuestionAnalysis ==
    /\ pc = "app" /\ CompanyShown(session_state)
    /\ pc' = "shown"
    /\ LET l == LoadFinancialDataOf(session_state, session_state.selected_company.corp_code)
           company_info == session_state.company_info
       IN /\ load_result' = IF l.exc # "none" THEN [raised |-> l.exc] ELSE l.ret
          /\ IF l.exc # "none" \/ ~l.ret.success
             THEN session_state' = l.session /\ displayed' = NoData
             ELSE \E q \in Questions : \E r \in QuestionResults(company_info, l.ret.data, q) :
                     /\ session_state' = SetItem(l.session, question_result_key, r)
                     /\ displayed' = IF r.status = "success"
                                     THEN [rerun |-> TRUE, kind |-> "analysis", shown |-> r.analysis]
                                     ELSE [rerun |-> TRUE, kind |-> "error", shown |-> PyNone]
    /\ UNCHANGED appRest

\* Lines 502-518 and 624-631, the same mode without the button.
ShowQuestionAnalysis ==
    /\ pc = "app" /\ CompanyShown(session_state)
    /\ pc' = "shown"
    /\ LET l == LoadFinancialDataOf(session_state, session_state.selected_company.corp_code)
       IN /\ load_result' = IF l.exc # "none" THEN [raised |-> l.exc] ELSE l.ret
          /\ session_state' = l.session
          /\ displayed' =
                IF l.exc # "none" \/ ~l.ret.success THEN NoData
                ELSE IF question_result_key \in DOMAIN l.session
                        /\ l.session[question_result_key].status = "success"
                THEN [rerun |-> FALSE, kind |-> "analysis",
                      shown |-> l.session[question_result_key].analysis]
                ELSE Nothing
    /\ UNCHANGED appRest

\* The first key of keys (from position k) that the dataset lacks: the
\* KeyError of financial_data[key]; "" when every key is there.
RECURSIVE FirstMissing(_, _, _)
FirstMissing(fd, keys, k) ==
    IF k > Len(keys) THEN ""
    ELSE IF keys[k] \in DOMAIN fd THEN FirstMissing(fd, keys, k + 1)
    ELSE keys[k]

\* Lines 718-742: the keys display_balance_sheet reads, in order.
BalanceSheetKeys ==
    <<"years", "assets", "current_assets", "cash_and_equivalents", "trade_receivables",
      "inventories", "non_current_assets", "liabilities", "current_liabilities",
      "trade_payables", "short_term_borrowings", "non_current_liabilities", "equity">>

\* Lines 892-1012: the keys display_financial_overview reads, in order.
OverviewKeys ==
    <<"years", "assets", "liabilities", "equity", "revenue", "operating_profit",
      "net_income", "current_assets", "non_current_assets", "current_liabilities">>

\* What a display operation shows for the keys it reads.
Drawn(l, keys, name) ==
    IF l.exc # "none" \/ ~l.ret.success THEN NoData
    ELSE IF FirstMissing(l.ret.data, keys, 1) # ""
    THEN [rerun |-> FALSE, kind |-> "KeyError",
          shown |-> [operation |-> name, key |-> FirstMissing(l.ret.data, keys, 1)]]
    ELSE [rerun |-> FALSE, kind |-> name, shown |-> l.ret.data]

\* Lines 699-762, the load button of the year selector not pressed.
DisplayBalanceSheet ==
    /\ pc = "app" /\ CompanyShown(session_state)
    /\ pc' = "shown"
    /\ LET l == LoadFinancialDataOf(session_state, session_state.selected_company.corp_code)
       IN /\ load_result' = IF l.exc # "none" THEN [raised |-> l.exc] ELSE l.ret
          /\ session_state' = l.session
          /\ displayed' = Drawn(l, BalanceSheetKeys, "balance-sheet")
    /\ UNCHANGED appRest

\* Lines 876-1012, the load button of the year selector not pressed; the
\* ratios are calculated (line 894) before the charts are drawn.
DisplayFinancialOverview ==
    /\ pc = "app" /\ CompanyShown(session_state)
    /\ pc' = "shown"
    /\ LET l == LoadFinancialDataOf(session_state, session_state.selected_company.corp_code)
       IN /\ load_result' = IF l.exc # "none" THEN [raised |-> l.exc] ELSE l.ret
          /\ session_state' = l.session
          /\ displayed' =
                IF l.exc = "none" /\ l.ret.success
                   /\ RatiosRaise(calculate_financial_ratios(l.ret.data))
                THEN [rerun |-> FALSE, kind |-> ZeroDivisionError, shown |-> PyNone]
                ELSE Drawn(l, OverviewKeys, "overview")
    /\ UNCHANGED appRest

\* The next interaction starts the script again (Streamlit runs it from the
\* top); only st.session_state is kept.
Rerun ==
    /\ pc = "shown"
    /\ pc' = "app"
    /\ load_result' = NoLoad
    /\ displayed' = NoDisplay
    /\ UNCHANGED <<session_state, appRest>>

NextApp ==
    \/ SetupSidebar
    \/ YearSelector
    \/ LoadFinancialData
    \/ RunCompanyAnalysis
    \/ ShowCompanyAnalysis
    \/ RunQuestionAnalysis
    \/ ShowQuestionAnalysis
    \/ DisplayBalanceSheet
    \/ DisplayFinancialOverview
    \/ Rerun

SpecApp == InitApp /\ [][NextApp]_vars

(***************************************************************************)
(* display_valuation_results (display_valuation.py, and the method of the  *)
(* same name in llm_analyzer.py) on the payload of a success result.       *)
(***************************************************************************)
IsPyDict(x) == "t" \in DOMAIN x /\ x.t = "dict"
IsPyNumber(x) == "t" \in DOMAIN x /\ x.t \in {"int", "bool"}

\* `if not valuation_data:` on a decoded value
PyTruthy(x) ==
    IF x = PyNone THEN FALSE
    ELSE IF x.t = "int" THEN x.v # 0
    ELSE IF x.t = "bool" THEN x.v
    ELSE IF x.t = "str" THEN x.v # ""
    ELSE IF x.t = "list" THEN Len(x.v) > 0
    ELSE DOMAIN x.v # {}

\* d.get(key, default) on a dict
PyGet(d, key, default) == IF key \in DOMAIN d.v THEN d.v[key] ELSE default

\* int(x) of a number (True is 1)
NumberOf(x) == IF x.t = "bool" THEN (IF x.v THEN 1 ELSE 0) ELSE x.v

ScenarioKeys == <<"conservative", "base", "optimistic">>

\* Lines 38-47: the three values of a valuation, before the division by
\* 1000000.
ScenarioValues(v) == [k \in 1..3 |-> PyGet(v, ScenarioKeys[k], PyIntValue(0))]

\* Lines 109-112: the division of every value by the maximum.
Normalised(values) ==
    IF MaxOf({NumberOf(values[k]) : k \in 1..Len(values)}) = 0
    THEN "ZeroDivisionError" ELSE "shown"

\* Lines 38-47 for one valuation: .get on a value that is no dict, or the
\* division of a value that is no number.
ScenariosRaise(v) ==
    IF ~IsPyDict(v) THEN "AttributeError"
    ELSE IF \E k \in 1..3 : ~IsPyNumber(ScenarioValues(v)[k]) THEN "TypeError"
    ELSE "none"

\* Lines 15-112: "no-data" for the early return, "shown" when the charts
\* are drawn, else the exception that leaves the function.  The payloads
\* of the model have no assumptions and no calculations, so the other tabs
\* show their st.info texts.

display_valuation_results(valuation_data) ==
    IF ~PyTruthy(valuation_data) THEN "no-data"
    ELSE IF ~IsPyDict(valuation_data) THEN "AttributeError"
    ELSE LET ebitda_valuation == PyGet(valuation_data, "ebitda_valuation", PyDict(EmptyDict))
             dcf_valuation == PyGet(valuation_data, "dcf_valuation", PyDict(EmptyDict))
         IN IF ScenariosRaise(ebitda_valuation) # "none" THEN ScenariosRaise(ebitda_valuation)
            ELSE IF ScenariosRaise(dcf_valuation) # "none" THEN ScenariosRaise(dcf_valuation)
            ELSE Normalised(ScenarioValues(ebitda_valuation) \o ScenarioValues(dcf_valuation))

\* Responses of the backend with every kind of scenario values.
ScenarioObjects ==
    {"{}",
     "{\"conservative\": 0, \"base\": 0, \"optimistic\": 0}",
     "{\"conservative\": 1, \"base\": 2, \"optimistic\": 3}",
     "{\"base\": 5}",
     "{\"conservative\": -1, \"base\": -2, \"optimistic\": -3}",
     "{\"base\": \"5\"}",
     "null",
     "7"}
ScenarioText(e, d) ==
    "{\"company\": \"ACME\", \"ebitda_valuation\": " \o e \o ", \"dcf_valuation\": " \o d \o "}"
DisplayTexts == ResponseTexts \cup {ScenarioText(e, d) : e, d \in ScenarioObjects}

\* The backend has answered a call of analyze_company_value.
InitDisplay ==
    /\ \E t \in DisplayTexts : response = [kind |-> "text", content |-> t]
    /\ pc = "answered"
    /\ llm_result = NoResult
    /\ displayed = NoDisplay
    /\ api_key = [a \in Analyzers |-> ""]
    /\ openai_api_key = NoKey
    /\ call = NoCall
    /\ prompt = NoPrompt
    /\ backend_calls = <<>>
    /\ session_state = NoSession /\ load_result = NoLoad
    /\ financial_data_list = <<>> /\ years = <<>>
    /\ i = 1 /\ idx = 1 /\ item = 1
    /\ year_result = Zeros
    /\ result = NoDataset
    /\ exc = "none"
    /\ financial_data = NoDataset
    /\ ratios = NoRatios
    /\ valuation = NoValuation
    /\ call_no = 1 /\ previous = NoDataset

\* Lines 196-222 of llm_analyzer.py: the result for the response.
ParseAnswer ==
    /\ pc = "answered"
    /\ llm_result' = ParseContent(ContentOf(response.content))
    /\ pc' = "parsed"
    /\ UNCHANGED <<api_key, openai_api_key, call, financial_data, prompt, backend_calls,
                   response, finVars, appVars>>

\* The payload of a success result is given to display_valuation_results.
DisplayValuationResults ==
    /\ pc = "parsed" /\ llm_result.status = "success"
    /\ displayed' = [rerun |-> TRUE,
                     kind |-> display_valuation_results(llm_result.valuation_data),
                     shown |-> llm_result.valuation_data]
    /\ pc' = "displayed"
    /\ UNCHANGED <<session_state, load_result, llmVars, financial_data, finVars>>

NextDisplay == ParseAnswer \/ DisplayValuationResults

SpecDisplay == InitDisplay /\ [][NextDisplay]_vars

\* C29: every payload that analyze_company_value returns as success is
\* displayed without an arithmetic error; in particular a payload whose six
\* scenario values are all absent or all 0 causes no division by zero.
C29_DisplayNeverDividesByZero ==
    pc = "displayed" => displayed.kind # "ZeroDivisionError"

(***************************************************************************)
(* Properties of the BridgeApp session.                                    *)
(***************************************************************************)
\* The dataset computed from the statements of the selected company for
\* the selected year, as _load_financial_data returns it.
FreshLoad(ss) ==
    LET f == FetchedFor[ss.selected_company.corp_code, ss.selected_year]
    IN IF f.kind = "dataset" THEN [data |-> f.financial_data, success |-> TRUE] ELSE [data |-> PyNone, success |-> FALSE]

\* C24: after any sequence of company selections, year changes and loads,
\* _load_financial_data returns the dataset computed from the statements
\* of the currently selected company for the currently selected year,
\* never a dataset cached for another company or year.
C24_LoadReturnsSelectedCompanyDataset ==
    (pc = "shown" /\ load_result # NoLoad) => load_result = FreshLoad(session_state)


\* A stored result is on display: perform_analysis showed it without
\* running the analysis.
StoredShown(kind) == pc = "shown" /\ displayed # NoDisplay /\ ~displayed.rerun /\ displayed.kind = kind

\* C26: a stored LLM analysis result (valuation or question answer) that
\* is displayed without re-running the analysis was produced for the
\* currently selected company and its currently loaded dataset.
C26_StoredResultIsForCurrentCompany ==
    /\ StoredShown("valuation") =>
          displayed.shown.answers =
              CompanyValuePrompt(session_state.company_info, load_result.data,
                                 IndustryInfoOf(session_state.company_info))
    /\ StoredShown("analysis") =>
          \E q \in Questions :
              displayed.shown.answers =
                  InvestmentPrompt(session_state.company_info, load_result.data, q)


\* C30: the dataset of process_financial_data has a value list for every
\* key the display operations read, the balance-sheet sub-items included,
\* so display_balance_sheet and display_financial_overview never fail on a
\* missing key.
C30_DisplayFindsEveryKey ==
    (pc = "shown" /\ displayed # NoDisplay) => displayed.kind # "KeyError"

====
